---- MODULE Spec2Model ----
(***************************************************************************)
(* Credit ledger and inventory pools of the mailseller backend.            *)
(*                                                                         *)
(* Money is counted in integer model units of 1e-7 credit, so that the     *)
(* code's 5-digit rounding (round(x, 5) in Python, floor(x*1e5+0.5)/1e5 in *)
(* the Lua script) is visible: one ledger quantum (1e-5 credit) is Unit    *)
(* model units.  Discounts are integer percents.                           *)
(*                                                                         *)
(* The HotStore (balance, fast pools, sold sets) is one store; the code    *)
(* reaches it through MemoryManager or through RedisManager, which are its *)
(* two implementations.  The durable pool is the data_pool /               *)
(* data_pool_sold pair of tables.                                          *)
(***************************************************************************)
EXTENDS Integers, FiniteSets, Sequences, TLC

(***************************************************************************)
(* Bounds of the model.                                                    *)
(***************************************************************************)
MaxRequests == 2
MaxAdds == 2
MaxTokens == 3
MaxCalls == 3
MaxEvents == 2
MaxExpiries == 1
MaxTiers == 3
MaxThreshold == 2
MaxRecords == 3
MaxTicks == 13
MaxSyncs == 2
MaxFailures == 1
MaxListLen == 3
MaxPops == 3
MaxRows == 2
MaxCleanups == 2
MaxNow == 3
MaxLookups == 2
MaxSets == 3

(***************************************************************************)
(* Program constants.                                                      *)
(***************************************************************************)
Unit == 100
MaxAmount == 100
CandidateFactor == 3
CandidateCap == 1000
SYNC_INTERVAL_SECONDS == 5

Credit == 100000 * Unit

\* absent values: no buyer, no type, no lock holder, no discount
NoUser == 0
NoType == "none"
NoProc == 0
NoDiscount == -1

NoToken == 0
NoCredit == -1

Users == {1}
RotProcs == {1, 2}
Tokens == 1 .. MaxTokens
Procs == {1, 2}
Items == {"a", "b"}
Types == {"gmail", "hotmail"}
CustomDiscounts == {10}
Amounts == {0, 1, 2, 5, 101}
ItemBatches == {{"a"}, {"a", "b"}}
DProcs == {1, 2}
DiscountSettings == {NoDiscount, 20}
DepositAmounts == {5 * Credit}

\* the registered tasks in the order of registration, and their intervals:
\* credit_sync, token_sync, cleanup, cleanup_transactions
Intervals == <<SYNC_INTERVAL_SECONDS, SYNC_INTERVAL_SECONDS, SYNC_INTERVAL_SECONDS, 60>>
Tasks == DOMAIN Intervals

\* data_group.items of one POST /datapool/add: a list, duplicates allowed
ItemLists == UNION {[1 .. n -> Items] : n \in 1 .. MaxListLen}

\* rows of the transactions table: type, amount and age in hours
RowIds == 1 .. MaxRows
HOURS_KEPT == 24
DEPOSIT_WINDOW_HOURS == 168
Ages == {0, HOURS_KEPT, HOURS_KEPT + 1, DEPOSIT_WINDOW_HOURS, DEPOSIT_WINDOW_HOURS + 1}
NoRow == [user_id |-> NoUser, type |-> "none", amount |-> 0, age |-> 0]
TransactionRows ==
    [user_id : Users, type : {"purchase"}, amount : {-3 * Credit}, age : Ages]
        \cup [user_id : Users, type : {"admin_deposit", "heleket"},
              amount : {5 * Credit}, age : Ages]

\* MemoryManager caches: entries (value, expiry), session tokens, TTLs
NoEntry == [value |-> NoDiscount, expiry |-> NoDiscount]
SessionTokens == {"s1", "s2"}
TTLs == {1, 2}
CachedDiscounts == {0} \cup CustomDiscounts
NotCalled == [call |-> "none", value |-> NoDiscount]
\* users of the MemoryManager token maps
MemUsers == {1, 2}

Records == 1 .. MaxRecords
Thresholds == 0 .. MaxThreshold
DepositSums == 0 .. MaxThreshold + 1

\* no tier computed yet
NoTier == [code |-> 0, weekly_credit |-> 0]

\* settings.RANKS in the order of the dict: tier i has code i
TierTables ==
    UNION {[1 .. n -> Thresholds] : n \in 1 .. MaxTiers}
Tiers(thresholds) ==
    [i \in 1 .. Len(thresholds) |-> [code |-> i, weekly_credit |-> thresholds[i]]]

\* no get_user_discount call has returned yet
NoCall == [value |-> NoDiscount, queries |-> 0]
\* the configurations the runs start from: price per item, balance, custom discount
Configs ==
    {[price |-> 3 * Credit, balance |-> b, custom |-> NoDiscount] :
        b \in {2 * Credit, 10 * Credit, 15 * Credit}}
    \cup {[price |-> 3 * Unit, balance |-> 5 * Unit, custom |-> d] :
              d \in {NoDiscount} \cup CustomDiscounts}

VARIABLES
    credits,            \* HotStore balance per user
    pools,              \* HotStore pool per fast type
    sold_data,          \* HotStore sold set per user
    discount_cache,     \* HotStore cached discount per user
    custom_discount,    \* DurableStore user.custom_discount
    deposit_sum,        \* DurableStore: sum of the user's deposit rows (7 days)
    data_pool,          \* DurableStore data_pool rows: item value -> type
    data_pool_sold,     \* DurableStore data_pool_sold rows: item value -> buyer
    row_lock,           \* FOR UPDATE row locks held by open transactions
    queue,              \* TransactionHistoryProcessor.queue
    type_price,         \* price per item of each type (type configuration)
    pc,                 \* position of each request handler
    req,                \* the request each handler is serving
    disc,               \* discount the handler resolved
    cost,               \* cost computed by the db branch
    snap,               \* rows the db branch's SELECT saw as unsold
    cand,               \* rows the db branch locked and will mark sold
    held,               \* items this request has taken out of a pool
    charged,            \* amount this request has taken off the balance
    logged,             \* transactions this request has enqueued
    attempts,           \* history: pop attempts of this request's PoolService.purchase_data
    result,             \* response of the handler
    deposited,          \* history: the balance each user started with
    spent,              \* history: sum of the costs reported by successes
    returned,           \* history: times a pool purchase returned each item
    added,              \* history: sum of the counts AddItems returned
    nreq,               \* requests started so far
    nadds,              \* AddItems calls so far
    user_tokens,        \* HotStore user -> token
    token_lookup,       \* HotStore token -> user
    user_token_row,     \* DurableStore user_token rows: user -> token
    rot_pc,             \* position of each rotate_my_token handler
    rot_old,            \* the token the rotation read from the user_token row
    rot_new,            \* the token the rotation generated
    auth_pc,            \* position of the bearer-auth dependency
    auth_token,         \* the bearer token it is resolving
    auth_user,          \* the user its DurableStore lookup found
    issued,             \* tokens generated so far
    last_set,           \* history: token of the last completed SetToken per user
    retired,            \* history: pre-rotation tokens of completed rotations
    credit_row,         \* DurableStore user_credit rows: user -> credits
    gd_pc,              \* position of each get_user_discount call
    gd_custom,          \* user.custom_discount as the call read it
    gd_final,           \* final_discount of the call
    adm_pc,             \* position of the admin / webhook handler
    adm_user,           \* the user the handler is changing
    adm_amount,         \* the amount it deposits
    adm_balance,        \* new_balance returned by increment_user_credit
    adm_custom,         \* user.custom_discount as its recalculation read it
    adm_final,          \* final_discount of its recalculation
    ncalls,             \* get_user_discount calls started so far
    nevents,            \* admin / webhook requests started so far
    nexpired,           \* cache entries expired so far
    last_call,          \* history: value and query count of the last returned call
    fresh,              \* history: a call returned, no expiry or recompute since
    raced,              \* history: a request overlapped a cache-miss computation
    tier_ranks,         \* settings.RANKS of a calculate_user_tier call
    tier_deposit,       \* deposit_amount of the call
    tier_current,       \* current_tier the call returned
    running,            \* TransactionHistoryProcessor.running
    th_pc,              \* position of TransactionHistoryProcessor.process
    th_session,         \* records add_all put into the session, not yet committed
    persisted,          \* DurableStore transaction rows: record -> number of rows
    nrecs,              \* records passed to add so far
    added_running,      \* history: records passed to add before stop()
    sch_pc,             \* position of run_periodic_sync
    sch_cur,            \* index of the task the for loop is at
    timer,              \* task["timer"] of each registered task
    nticks,             \* iterations of the while loop started so far
    ran,                \* history: the tasks run in the current iteration
    due,                \* history: the tasks an iteration without failures would run
    ideal_timer,        \* history: the timers of a scheduler whose tasks never raise
    raised,             \* history: the tasks that have raised
    order,              \* history: the tasks run in the current iteration, in order
    sync_pc,            \* position of sync_all_credits_to_postgres
    all_credits,        \* its copy of the HotStore balances
    changed_user_ids,   \* the users it found changed
    sync_dirty,         \* the users whose row it has modified in its session
    last_synced_credits, \* BackgroundScheduler._last_synced_credits
    nsyncs,             \* credit_sync runs started so far
    nfailed,            \* commits that have failed so far
    tried,              \* history: rows the last failed run tried to write
    boot_pc,            \* position of lifespan's startup sequence
    last_synced_tokens, \* BackgroundScheduler._last_synced_tokens
    ai_calls,           \* times the add_data_to_pool request under test was sent
    ai_type,            \* data_group.type of the request
    ai_items,           \* data_group.items of the request
    ai_before,          \* history: the items the pool held before the first call
    ai_added,           \* added_count of each call
    ai_pool_size,       \* pool_size of each call, after the pool size before the first
    transaction_rows,   \* DurableStore: rows of the transactions table
    rows_before,        \* history: the table before the last cleanup_old_transactions
    ncleanups,          \* runs of cleanup_old_transactions
    tsync_pc,           \* position of sync_all_tokens_to_postgres
    all_tokens,         \* its all_tokens
    tsync_changed,      \* its changed_user_ids
    ntsyncs,            \* runs of sync_all_tokens_to_postgres
    now,                \* datetime.utcnow(), in units of one TTL step
    mm_discount_cache,  \* MemoryManager._discount_cache: (discount, expiry) per user
    auth_sessions,      \* MemoryManager._auth_sessions: (user_id, expiry) per session token
    found,              \* what the last MemoryManager cache call returned
    nlookups,           \* get_discount and get_session calls
    nsweeps,            \* cleanup_expired_sessions calls
    mm_user_tokens,     \* MemoryManager._user_tokens
    mm_token_lookup,    \* MemoryManager._token_lookup
    nsets,              \* MemoryManager.set_user_token calls
    null_credit,        \* MemoryManager._credits[None]
    null_sold           \* MemoryManager._sold_data[None]

hot == <<credits, pools, sold_data, discount_cache>>
durable == <<custom_discount, deposit_sum, data_pool, data_pool_sold, row_lock>>
locals == <<pc, req, disc, cost, snap, cand, held, charged, logged, attempts, result>>
history == <<deposited, spent, returned, added>>
counters == <<nreq, nadds>>
core == <<hot, durable, queue, type_price, locals, history, counters>>
tokens == <<user_tokens, token_lookup, user_token_row, rot_pc, rot_old, rot_new,
            auth_pc, auth_token, auth_user, issued, last_set, retired>>
discounts == <<gd_pc, gd_custom, gd_final, adm_pc, adm_user, adm_amount, adm_balance,
               adm_custom, adm_final, ncalls, nevents, nexpired, last_call, fresh, raced>>
tiers == <<tier_ranks, tier_deposit, tier_current>>
tlog == <<running, th_pc, th_session, persisted, nrecs, added_running>>
sched == <<sch_pc, sch_cur, timer, nticks, ran, due, ideal_timer, raised, order>>
sync == <<sync_pc, all_credits, changed_user_ids, sync_dirty, last_synced_credits,
         nsyncs, nfailed, tried>>
boot == <<boot_pc, last_synced_tokens>>
adds == <<ai_calls, ai_type, ai_items, ai_before, ai_added, ai_pool_size>>
transactions == <<transaction_rows, rows_before, ncleanups>>
tsync == <<tsync_pc, all_tokens, tsync_changed, ntsyncs>>
memory == <<now, mm_discount_cache, auth_sessions, found, nlookups, nsweeps,
            mm_user_tokens, mm_token_lookup, nsets>>
anon == <<null_credit, null_sold>>
rest == <<adds, transactions, tsync, memory, anon>>
aux == <<tokens, credit_row, discounts, tiers, tlog, sched, sync, boot, rest>>
vars == <<core, aux>>

\* what the handlers of one subsystem leave alone
core_rest == <<pools, sold_data, data_pool, data_pool_sold, row_lock, queue,
               type_price, locals, history, counters>>
core_but_queue == <<hot, durable, type_price, locals, history, counters>>
beside_tokens == <<core, credit_row, discounts, tiers, tlog, sched, sync, boot, rest>>
beside_discounts == <<core_rest, tokens, tiers, tlog, sched, sync, boot, rest>>
beside_tiers == <<core, tokens, credit_row, discounts, tlog, sched, sync, boot, rest>>
beside_tlog == <<core_but_queue, tokens, credit_row, discounts, tiers, sched, sync, boot, rest>>
beside_sched == <<core, tokens, credit_row, discounts, tiers, tlog, sync, boot, rest>>
beside_boot == <<core_rest, custom_discount, deposit_sum, discount_cache, discounts,
                 tiers, tlog, sync_pc, all_credits, changed_user_ids, sync_dirty,
                 nsyncs, nfailed, tried, user_token_row, rot_pc, rot_old, rot_new,
                 auth_pc, auth_token, auth_user, issued, last_set, retired, credit_row,
                 sch_cur, timer, nticks, ran, due, ideal_timer, raised, order, rest>>
beside_adds == <<tokens, credit_row, discounts, tiers, tlog, sched, sync, boot, transactions,
                tsync, memory, anon>>
beside_transactions == <<core, tokens, credit_row, discounts, tiers, tlog, sched, sync,
                         boot, adds, tsync, memory, anon>>
beside_tsync == <<core, credit_row, discounts, tiers, tlog, sched, sync, boot_pc, adds,
                  transactions, token_lookup, rot_pc, rot_old, rot_new, auth_pc,
                  auth_token, auth_user, issued, last_set, retired, memory, anon>>
beside_memory == <<core, tokens, credit_row, discounts, tiers, tlog, sched, sync, boot,
                   adds, transactions, tsync, anon>>
beside_anon == <<tokens, credit_row, discounts, tiers, tlog, sched, sync, boot,
                 adds, transactions, tsync, memory>>
beside_sync == <<core, tokens, discounts, tiers, tlog, sched, boot, rest>>

(***************************************************************************)
(* Arithmetic.                                                             *)
(***************************************************************************)
Min(a, b) == IF a < b THEN a ELSE b

\* Python round(x, 5): nearest ledger quantum, ties to the even quantum.
RoundHalfEven(x) ==
    LET q == x \div Unit
        r == x % Unit
    IN  IF 2 * r < Unit THEN q * Unit
        ELSE IF 2 * r > Unit THEN (q + 1) * Unit
        ELSE IF q % 2 = 0 THEN q * Unit ELSE (q + 1) * Unit

\* Lua math.floor(x * 1e5 + 0.5) / 1e5: nearest ledger quantum, ties upward.
RoundHalfUp(x) == ((x + Unit \div 2) \div Unit) * Unit

\* cost_per_item * (1 - discount); prices are whole ledger quanta.
DiscountedCostPerItem(price, d) == (price \div 100) * (100 - d)

\* DiscountService.apply_discount(price, discount)
ApplyDiscount(price, d) == RoundHalfEven((price \div 100) * (100 - d))

(***************************************************************************)
(* Configuration that the code reads but does not define.                  *)
(***************************************************************************)
\* type_config["storage"]: the fast HotStore set or the durable table.
TypeStorage(t) == IF t = "gmail" THEN "fast" ELSE "db"

\* settings.RANKS sorted by weekly_credit: <<threshold, discount>>.
RANKS == << <<0, 0>>, <<5 * Credit, 10>> >>

RECURSIVE TierScan(_, _, _)
TierScan(deposit_amount, i, current) ==
    IF i > Len(RANKS) THEN current
    ELSE TierScan(deposit_amount, i + 1,
                  IF deposit_amount >= RANKS[i][1] THEN RANKS[i][2] ELSE current)

\* a faulty variant of TierDiscount: every user is in the base tier
TierDiscountOfBase(deposit_amount) == RANKS[1][2]

\* DiscountService.calculate_user_tier(...)["tier_discount"]
TierDiscount(deposit_amount) == TierScan(deposit_amount, 1, RANKS[1][2])

\* custom discount when set, else the tier discount
FinalDiscount(custom, deposit_amount) ==
    IF custom # NoDiscount THEN custom ELSE TierDiscount(deposit_amount)

(***************************************************************************)
(* Pools.                                                                  *)
(***************************************************************************)
\* unsold rows of a type in the durable pool (PoolService.get_pool_size)
Unsold(t) == {i \in Items : data_pool[i] = t /\ data_pool_sold[i] = NoUser}

PoolSize(t) ==
    IF TypeStorage(t) = "fast" THEN Cardinality(pools[t]) ELSE Cardinality(Unsold(t))

\* the subsets of S with exactly n elements
Pick(S, n) == {T \in SUBSET S : Cardinality(T) = n}

NoResult == [status |-> "none", data |-> {}, cost |-> 0, credit_remaining |-> 0]
NoRequest == [user |-> NoUser, type |-> NoType, amount |-> 0]

\* a faulty variant of Transaction: the amount keeps the sign of the cost
TransactionOfCost(u, amt, items) ==
    [user_id |-> u, amount |-> -amt, type |-> "purchase", data |-> items]

Transaction(u, amt, items) ==
    [user_id |-> u, amount |-> amt, type |-> "purchase", data |-> items]

(***************************************************************************)
(* Initial state: HotStore balances as loaded at startup, empty pools.     *)
(***************************************************************************)
InitCoreWith(c, balances) ==
    /\ credits = balances
    /\ custom_discount = [u \in Users |-> c.custom]
    /\ type_price = [t \in Types |-> c.price]
    /\ pools = [t \in {x \in Types : TypeStorage(x) = "fast"} |-> {}]
    /\ sold_data = [u \in Users |-> {}]
    /\ discount_cache = [u \in Users |-> NoDiscount]
    /\ deposit_sum = [u \in Users |-> 0]
    /\ data_pool = [i \in Items |-> NoType]
    /\ data_pool_sold = [i \in Items |-> NoUser]
    /\ row_lock = [i \in Items |-> NoProc]
    /\ queue = << >>
    /\ pc = [p \in Procs |-> "idle"]
    /\ req = [p \in Procs |-> NoRequest]
    /\ disc = [p \in Procs |-> 0]
    /\ cost = [p \in Procs |-> 0]
    /\ snap = [p \in Procs |-> {}]
    /\ cand = [p \in Procs |-> {}]
    /\ held = [p \in Procs |-> {}]
    /\ charged = [p \in Procs |-> 0]
    /\ logged = [p \in Procs |-> 0]
    /\ attempts = [p \in Procs |-> 0]
    /\ result = [p \in Procs |-> NoResult]
    /\ deposited = credits
    /\ spent = [u \in Users |-> 0]
    /\ returned = [t \in Types |-> [i \in Items |-> 0]]
    /\ added = [t \in Types |-> 0]
    /\ nreq = 0
    /\ nadds = 0

\* the HotStore holds the balance of every user
InitCore(c) == InitCoreWith(c, [u \in Users |-> c.balance])

\* the HotStore holds no token, the user_token rows hold the first n tokens
InitTokensWith(rows, n) ==
    /\ user_tokens = [u \in Users |-> NoToken]
    /\ token_lookup = [t \in Tokens |-> NoUser]
    /\ user_token_row = rows
    /\ rot_pc = [r \in RotProcs |-> "idle"]
    /\ rot_old = [r \in RotProcs |-> NoToken]
    /\ rot_new = [r \in RotProcs |-> NoToken]
    /\ auth_pc = "idle"
    /\ auth_token = NoToken
    /\ auth_user = NoUser
    /\ issued = n
    /\ last_set = [u \in Users |-> NoToken]
    /\ retired = {}

\* no token issued yet, no handler running
InitTokens == InitTokensWith([u \in Users |-> NoToken], 0)

\* the balance rows as data_loader read them into the HotStore
InitCreditRow == credit_row = credits

\* no discount request running, nothing cached
InitDiscounts ==
    /\ gd_pc = [d \in DProcs |-> "idle"]
    /\ gd_custom = [d \in DProcs |-> NoDiscount]
    /\ gd_final = [d \in DProcs |-> NoDiscount]
    /\ adm_pc = "idle"
    /\ adm_user = NoUser
    /\ adm_amount = 0
    /\ adm_balance = 0
    /\ adm_custom = NoDiscount
    /\ adm_final = NoDiscount
    /\ ncalls = 0
    /\ nevents = 0
    /\ nexpired = 0
    /\ last_call = [u \in Users |-> NoCall]
    /\ fresh = [u \in Users |-> FALSE]
    /\ raced = FALSE

\* a calculate_user_tier call about to run on a tier table and a deposit sum
InitTier(thresholds, d) ==
    /\ tier_ranks = Tiers(thresholds)
    /\ tier_deposit = d
    /\ tier_current = NoTier

InitAuxBefore == InitTokens /\ InitCreditRow /\ InitDiscounts

\* lifespan started the processor task: running, about to test the loop condition
InitLog ==
    /\ running = TRUE
    /\ th_pc = "check"
    /\ th_session = {}
    /\ persisted = [r \in Records |-> 0]
    /\ nrecs = 0
    /\ added_running = {}

\* a faulty variant of InitialTimer: the countdown starts at the interval
InitialTimerInterval(interval) == interval

\* register_task: "timer": 0
InitialTimer(interval) == 0

\* register_task: every timer starts at 0; the loop is about to start
InitSchedWith(position) ==
    /\ sch_pc = position
    /\ sch_cur = 0
    /\ timer = [i \in Tasks |-> InitialTimer(Intervals[i])]
    /\ nticks = 0
    /\ ran = {}
    /\ due = {}
    /\ ideal_timer = [i \in Tasks |-> InitialTimer(Intervals[i])]
    /\ raised = {}
    /\ order = << >>

\* start() created the loop's task
InitSched == InitSchedWith("sleep")

\* no credit_sync run in progress
InitSyncWith(last) ==
    /\ sync_pc = "idle"
    /\ all_credits = credits
    /\ changed_user_ids = {}
    /\ sync_dirty = {}
    /\ last_synced_credits = last
    /\ nsyncs = 0
    /\ nfailed = 0
    /\ tried = {}

\* data_loader tracked every loaded balance as synced
InitSync == InitSyncWith(credits)

\* the startup sequence is over; every loaded token is tracked as synced
InitStarted ==
    /\ boot_pc = "started"
    /\ last_synced_tokens = user_tokens

\* the add_data_to_pool request under test has not been sent
InitAdds ==
    /\ ai_calls = 0
    /\ ai_type = NoType
    /\ ai_items = << >>
    /\ ai_before = {}
    /\ ai_added = << >>
    /\ ai_pool_size = << >>

\* no Transaction row has been written
InitTransactions ==
    /\ transaction_rows = [k \in RowIds |-> NoRow]
    /\ rows_before = [k \in RowIds |-> NoRow]
    /\ ncleanups = 0

\* sync_all_tokens_to_postgres is not running
InitTokenSync ==
    /\ tsync_pc = "idle"
    /\ all_tokens = [u \in Users |-> NoToken]
    /\ tsync_changed = {}
    /\ ntsyncs = 0

\* MemoryManager.__init__: empty caches and token maps
InitMemory ==
    /\ now = 0
    /\ mm_discount_cache = [u \in Users |-> NoEntry]
    /\ auth_sessions = [t \in SessionTokens |-> NoEntry]
    /\ found = NotCalled
    /\ nlookups = 0
    /\ nsweeps = 0
    /\ mm_user_tokens = [u \in MemUsers |-> NoToken]
    /\ mm_token_lookup = [t \in Tokens |-> NoUser]
    /\ nsets = 0

\* no balance and no sold set is kept under the key None
InitAnon ==
    /\ null_credit = NoCredit
    /\ null_sold = {}

InitRest == InitAdds /\ InitTransactions /\ InitTokenSync /\ InitMemory /\ InitAnon

InitAuxAfter == InitLog /\ InitSched /\ InitSync /\ InitStarted /\ InitRest

InitAux == InitAuxBefore /\ InitTier(<<0>>, 0) /\ InitAuxAfter

Init == (\E c \in Configs : InitCore(c)) /\ InitAux

\* the start of the runs that do not depend on prices
BaseConfig == [price |-> 3 * Credit, balance |-> 10 * Credit, custom |-> NoDiscount]

InitBase == InitCore(BaseConfig) /\ InitAux

(***************************************************************************)
(* GET /purchase: validation, then the discount lookup.                    *)
(***************************************************************************)
\* a faulty variant of ValidAmount: the upper limit is not checked
ValidAmountNoUpperLimit(a) == a > 0

\* the two amount checks that open the handler
ValidAmount(a) == a > 0 /\ a <= MaxAmount

\* a handler slot is free before its first request and after its response
Free(p) == pc[p] \in {"idle", "done"}

\* Handler slots are interchangeable: a request is served in the lowest free slot.
Request(p, u, t, a) ==
    /\ Free(p)
    /\ \A q \in Procs : q < p => ~Free(q)
    /\ nreq < MaxRequests
    /\ nreq' = nreq + 1
    /\ req' = [req EXCEPT ![p] = [user |-> u, type |-> t, amount |-> a]]
    /\ IF ValidAmount(a)
       THEN /\ pc' = [pc EXCEPT ![p] = "discount"]
            /\ result' = [result EXCEPT ![p] = NoResult]
       ELSE /\ pc' = [pc EXCEPT ![p] = "done"]
            /\ result' = [result EXCEPT ![p] = [NoResult EXCEPT !.status = "invalid"]]
    /\ disc' = [disc EXCEPT ![p] = 0]
    /\ cost' = [cost EXCEPT ![p] = 0]
    /\ snap' = [snap EXCEPT ![p] = {}]
    /\ cand' = [cand EXCEPT ![p] = {}]
    /\ held' = [held EXCEPT ![p] = {}]
    /\ charged' = [charged EXCEPT ![p] = 0]
    /\ logged' = [logged EXCEPT ![p] = 0]
    /\ attempts' = [attempts EXCEPT ![p] = 0]
    /\ UNCHANGED <<hot, durable, queue, type_price, history, nadds>>
    /\ UNCHANGED aux

\* DiscountService.get_user_discount: the cached value, or compute and cache it
GetDiscount(p) ==
    /\ pc[p] = "discount"
    /\ LET u == req[p].user
           final == FinalDiscount(custom_discount[u], deposit_sum[u])
       IN  IF discount_cache[u] # NoDiscount
           THEN /\ disc' = [disc EXCEPT ![p] = discount_cache[u]]
                /\ UNCHANGED discount_cache
           ELSE /\ disc' = [disc EXCEPT ![p] = final]
                /\ discount_cache' = [discount_cache EXCEPT ![u] = final]
    /\ pc' = [pc EXCEPT ![p] =
                IF TypeStorage(req[p].type) = "fast" THEN "fast" ELSE "db_check"]
    /\ UNCHANGED <<credits, pools, sold_data, durable, queue, type_price>>
    /\ UNCHANGED <<req, cost, snap, cand, held, charged, logged, attempts, result>>
    /\ UNCHANGED <<history, counters>>
    /\ UNCHANGED aux

(***************************************************************************)
(* Fast pool: the purchase is one step of the HotStore, followed without   *)
(* a suspension point by CreditService's transaction record.               *)
(***************************************************************************)
\* a faulty variant of InsufficientCredit: a balance equal to the cost is refused
InsufficientCreditOrEqual(credit, total_cost) == credit <= total_cost

\* the pre-check of both fast implementations: user_credit < total_cost
InsufficientCredit(credit, total_cost) == credit < total_cost

\* a faulty variant of PoolEmpty: an empty pool is not noticed
PoolEmptyUnnoticed(pool) == Cardinality(pool) < 0

\* data_type not in self._pools or len(self._pools[data_type]) == 0
PoolEmpty(pool) == pool = {}

\* min(amount, len(pool)); SPOP key count
Available(amount, size) == Min(amount, size)

\* MemoryManager: round(len(purchased_items) * discounted_cost_per_item, 5)
MemActualCost(n, dcpi) == RoundHalfEven(n * dcpi)

\* MemoryManager.increment_user_credit
\* a faulty variant of IncrementUserCredit: the amount replaces the balance
IncrementUserCreditAsSet(current, amount) == RoundHalfEven(amount)

IncrementUserCredit(current, amount) == RoundHalfEven(current + amount)

\* the effect of a successful fast purchase, whichever implementation ran it
FastSuccess(p, S, new_credit, reported) ==
    LET u == req[p].user
        t == req[p].type
    IN  /\ pools' = [pools EXCEPT ![t] = @ \ S]
        /\ credits' = [credits EXCEPT ![u] = new_credit]
        /\ sold_data' = [sold_data EXCEPT ![u] = @ \cup S]
        /\ queue' = Append(queue, Transaction(u, -reported, S))
        /\ held' = [held EXCEPT ![p] = S]
        /\ charged' = [charged EXCEPT ![p] = credits[u] - new_credit]
        /\ logged' = [logged EXCEPT ![p] = 1]
        /\ UNCHANGED attempts
        /\ spent' = [spent EXCEPT ![u] = @ + reported]
        /\ returned' = [returned EXCEPT ![t] =
                           [i \in Items |-> IF i \in S THEN @[i] + 1 ELSE @[i]]]
        /\ result' = [result EXCEPT ![p] =
                         [status |-> "success", data |-> S, cost |-> reported,
                          credit_remaining |-> new_credit]]

\* a fast purchase that changes nothing
FastRefused(p, status) ==
    /\ result' = [result EXCEPT ![p] =
                     [NoResult EXCEPT !.status = status,
                                      !.credit_remaining = credits[req[p].user]]]
    /\ UNCHANGED <<credits, pools, sold_data, queue, held, charged, logged, attempts>>
    /\ UNCHANGED <<spent, returned>>

\* CreditService.purchase_data over MemoryManager.purchase_data
MemPurchase(p) ==
    /\ pc[p] = "fast"
    /\ LET u == req[p].user
           t == req[p].type
           dcpi == DiscountedCostPerItem(type_price[t], disc[p])
           total_cost == req[p].amount * dcpi
       IN  IF InsufficientCredit(credits[u], total_cost)
           THEN FastRefused(p, "insufficient_credit")
           ELSE IF PoolEmpty(pools[t])
           THEN FastRefused(p, "no_data")
           ELSE \E S \in Pick(pools[t], Available(req[p].amount, Cardinality(pools[t]))) :
                    LET actual_cost == MemActualCost(Cardinality(S), dcpi)
                    IN  FastSuccess(p, S, IncrementUserCredit(credits[u], -actual_cost),
                                    actual_cost)
    /\ pc' = [pc EXCEPT ![p] = "done"]
    /\ UNCHANGED <<discount_cache, durable, type_price, req, disc, cost, snap, cand>>
    /\ UNCHANGED <<deposited, added, counters>>
    /\ UNCHANGED aux

\* the Lua script: #data * discounted_cost_per_item, reported as it is
LuaActualCost(n, dcpi) == n * dcpi

\* the Lua script: INCRBYFLOAT, then round the balance and SET it back
LuaNewCredit(credit, actual_cost) == RoundHalfUp(credit - actual_cost)

\* CreditService.purchase_data over RedisManager.purchase_data (PURCHASE_SCRIPT)
RedisPurchase(p) ==
    /\ pc[p] = "fast"
    /\ LET u == req[p].user
           t == req[p].type
           dcpi == DiscountedCostPerItem(type_price[t], disc[p])
           total_cost == req[p].amount * dcpi
       IN  IF InsufficientCredit(credits[u], total_cost)
           THEN FastRefused(p, "insufficient_credit")
           ELSE IF Available(req[p].amount, Cardinality(pools[t])) = 0
           THEN FastRefused(p, "no_data")
           ELSE \E S \in Pick(pools[t], Available(req[p].amount, Cardinality(pools[t]))) :
                    LET actual_cost == LuaActualCost(Cardinality(S), dcpi)
                    IN  FastSuccess(p, S, LuaNewCredit(credits[u], actual_cost),
                                    actual_cost)
    /\ pc' = [pc EXCEPT ![p] = "done"]
    /\ UNCHANGED <<discount_cache, durable, type_price, req, disc, cost, snap, cand>>
    /\ UNCHANGED <<deposited, added, counters>>
    /\ UNCHANGED aux

(***************************************************************************)
(* Durable pool: the db branch of GET /purchase.  Every await is a         *)
(* suspension point, so each of these is a step of its own.                *)
(***************************************************************************)
\* cost = apply_discount(amount * price, discount)
DbCost(amount, price, d) == ApplyDiscount(amount * price, d)

\* the db branch's credit check: user_credit < cost
DbInsufficient(user_credit, c) == user_credit < c

\* min(amount * 3, 1000)
CandidateAmount(amount) == Min(amount * CandidateFactor, CandidateCap)

DbCheckCredit(p) ==
    /\ pc[p] = "db_check"
    /\ LET u == req[p].user
           c == DbCost(req[p].amount, type_price[req[p].type], disc[p])
       IN  /\ cost' = [cost EXCEPT ![p] = c]
           /\ IF DbInsufficient(credits[u], c)
              THEN /\ pc' = [pc EXCEPT ![p] = "done"]
                   /\ result' = [result EXCEPT ![p] =
                                    [NoResult EXCEPT !.status = "insufficient_credit",
                                                     !.credit_remaining = credits[u]]]
              ELSE /\ pc' = [pc EXCEPT ![p] = "db_select"]
                   /\ UNCHANGED result
    /\ UNCHANGED <<hot, durable, queue, type_price, history, counters>>
    /\ UNCHANGED <<req, disc, snap, cand, held, charged, logged, attempts>>
    /\ UNCHANGED aux

\* PoolService.purchase_data: the SELECT reads its snapshot of the unsold rows
DbSelect(p) ==
    /\ pc[p] = "db_select"
    /\ snap' = [snap EXCEPT ![p] = Unsold(req[p].type)]
    /\ attempts' = [attempts EXCEPT ![p] = @ + 1]
    /\ pc' = [pc EXCEPT ![p] = "db_lock"]
    /\ UNCHANGED <<hot, durable, queue, type_price, history, counters>>
    /\ UNCHANGED <<req, disc, cost, cand, held, charged, logged, result>>
    /\ UNCHANGED aux

\* ... and locks the rows it returns, skipping the rows another transaction
\* holds (FOR UPDATE SKIP LOCKED, LIMIT candidate_amount); candidates[:amount]
DbLock(p) ==
    /\ pc[p] = "db_lock"
    /\ LET free == {i \in snap[p] : row_lock[i] = NoProc}
       IN  IF free = {}
           THEN /\ pc' = [pc EXCEPT ![p] = "done"]
                /\ result' = [result EXCEPT ![p] = [NoResult EXCEPT !.status = "no_data"]]
                /\ UNCHANGED <<row_lock, cand>>
           ELSE \E C \in Pick(free, Min(CandidateAmount(req[p].amount), Cardinality(free))) :
                \E S \in Pick(C, Min(req[p].amount, Cardinality(C))) :
                    /\ row_lock' = [i \in Items |-> IF i \in C THEN p ELSE row_lock[i]]
                    /\ cand' = [cand EXCEPT ![p] = S]
                    /\ pc' = [pc EXCEPT ![p] = "db_commit"]
                    /\ UNCHANGED result
    /\ UNCHANGED <<hot, custom_discount, deposit_sum, data_pool, data_pool_sold>>
    /\ UNCHANGED <<queue, type_price, history, counters>>
    /\ UNCHANGED <<req, disc, cost, snap, held, charged, logged, attempts>>
    /\ UNCHANGED aux

\* the rows of a transaction's locks, released at commit and at rollback
Unlock(p) == [i \in Items |-> IF row_lock[i] = p THEN NoProc ELSE row_lock[i]]

\* db.commit() of the sold records; the primary key of data_pool_sold refuses a
\* row that is already sold, and the call then starts over
DbCommit(p) ==
    /\ pc[p] = "db_commit"
    /\ row_lock' = Unlock(p)
    /\ IF \E i \in cand[p] : data_pool_sold[i] # NoUser
       THEN /\ pc' = [pc EXCEPT ![p] = "db_select"]
            /\ cand' = [cand EXCEPT ![p] = {}]
            /\ UNCHANGED <<data_pool_sold, held, returned>>
       ELSE /\ data_pool_sold' = [i \in Items |->
                                     IF i \in cand[p] THEN req[p].user
                                     ELSE data_pool_sold[i]]
            /\ held' = [held EXCEPT ![p] = cand[p]]
            /\ returned' = [returned EXCEPT ![req[p].type] =
                               [i \in Items |-> IF i \in cand[p] THEN @[i] + 1 ELSE @[i]]]
            /\ pc' = [pc EXCEPT ![p] = "db_deduct"]
            /\ UNCHANGED cand
    /\ UNCHANGED <<hot, custom_discount, deposit_sum, data_pool, queue, type_price>>
    /\ UNCHANGED <<req, disc, cost, snap, charged, logged, attempts, result>>
    /\ UNCHANGED <<deposited, spent, added, counters>>
    /\ UNCHANGED aux

\* incrbyfloat(credit key, -cost), the transaction record and the response
DbDeduct(p) ==
    /\ pc[p] = "db_deduct"
    /\ LET u == req[p].user
           new_credit == credits[u] - cost[p]
       IN  /\ credits' = [credits EXCEPT ![u] = new_credit]
           /\ queue' = Append(queue, Transaction(u, -cost[p], held[p]))
           /\ charged' = [charged EXCEPT ![p] = cost[p]]
           /\ logged' = [logged EXCEPT ![p] = 1]
           /\ UNCHANGED attempts
           /\ spent' = [spent EXCEPT ![u] = @ + cost[p]]
           /\ result' = [result EXCEPT ![p] =
                            [status |-> "success", data |-> held[p], cost |-> cost[p],
                             credit_remaining |-> new_credit]]
    /\ pc' = [pc EXCEPT ![p] = "done"]
    /\ UNCHANGED <<pools, sold_data, discount_cache, durable, type_price>>
    /\ UNCHANGED <<req, disc, cost, snap, cand, held>>
    /\ UNCHANGED <<deposited, returned, added, counters>>
    /\ UNCHANGED aux

(***************************************************************************)
(* Admin operations.                                                       *)
(***************************************************************************)
\* a faulty variant of MemAddedCount: items the pool already holds are counted
MemAddedCountOfBatch(pool, items) == Cardinality(items)

\* MemoryManager.add_data_to_pool: len(pool) after the update - len(pool) before
MemAddedCount(pool, items) == Cardinality(pool \cup items) - Cardinality(pool)

\* the db branch of POST /datapool/add: the items with no data_pool row yet
DbNewItems(items) == {i \in items : data_pool[i] = NoType}

AddItems(t, items) ==
    /\ nadds < MaxAdds
    /\ nadds' = nadds + 1
    /\ IF TypeStorage(t) = "fast"
       THEN /\ pools' = [pools EXCEPT ![t] = @ \cup items]
            /\ added' = [added EXCEPT ![t] = @ + MemAddedCount(pools[t], items)]
            /\ UNCHANGED data_pool
       ELSE /\ data_pool' = [i \in Items |->
                                IF i \in DbNewItems(items) THEN t ELSE data_pool[i]]
            /\ added' = [added EXCEPT ![t] = @ + Cardinality(DbNewItems(items))]
            /\ UNCHANGED pools
    /\ UNCHANGED <<credits, sold_data, discount_cache>>
    /\ UNCHANGED <<custom_discount, deposit_sum, data_pool_sold, row_lock>>
    /\ UNCHANGED <<queue, type_price, locals, deposited, spent, returned>>
    /\ UNCHANGED nreq
    /\ UNCHANGED aux

(***************************************************************************)
(* API tokens: POST /token/rotate writes the HotStore through RedisManager *)
(* and the bearer-auth dependency reads and re-caches through              *)
(* MemoryManager.  Every await is a suspension point.                      *)
(***************************************************************************)
\* the cookie-authenticated user of the rotation requests
RotUser(r) == CHOOSE u \in Users : TRUE

\* select(UserToken) for the user, then generate_user_token
RotateRead(r) ==
    /\ rot_pc[r] = "idle"
    /\ issued < MaxTokens
    /\ issued' = issued + 1
    /\ rot_old' = [rot_old EXCEPT ![r] = user_token_row[RotUser(r)]]
    /\ rot_new' = [rot_new EXCEPT ![r] = issued + 1]
    /\ rot_pc' = [rot_pc EXCEPT ![r] =
                    IF user_token_row[RotUser(r)] = NoToken THEN "create" ELSE "delete"]
    /\ UNCHANGED <<user_tokens, token_lookup, user_token_row>>
    /\ UNCHANGED <<auth_pc, auth_token, auth_user, last_set, retired, beside_tokens>>

\* no row yet: insert one and commit; user_id is the table's primary key
RotateCreate(r) ==
    /\ rot_pc[r] = "create"
    /\ IF user_token_row[RotUser(r)] # NoToken
       THEN /\ rot_pc' = [rot_pc EXCEPT ![r] = "idle"]
            /\ UNCHANGED user_token_row
       ELSE /\ rot_pc' = [rot_pc EXCEPT ![r] = "set_user"]
            /\ user_token_row' = [user_token_row EXCEPT ![RotUser(r)] = rot_new[r]]
    /\ UNCHANGED <<user_tokens, token_lookup, rot_old, rot_new>>
    /\ UNCHANGED <<auth_pc, auth_token, auth_user, issued, last_set, retired, beside_tokens>>

\* delete the token -> user key of the token that was read
RotateDelete(r) ==
    /\ rot_pc[r] = "delete"
    /\ token_lookup' = [token_lookup EXCEPT ![rot_old[r]] = NoUser]
    /\ rot_pc' = [rot_pc EXCEPT ![r] = "commit"]
    /\ UNCHANGED <<user_tokens, user_token_row, rot_old, rot_new>>
    /\ UNCHANGED <<auth_pc, auth_token, auth_user, issued, last_set, retired, beside_tokens>>

\* user_token.token = new_token; commit
RotateCommit(r) ==
    /\ rot_pc[r] = "commit"
    /\ user_token_row' = [user_token_row EXCEPT ![RotUser(r)] = rot_new[r]]
    /\ rot_pc' = [rot_pc EXCEPT ![r] = "set_user"]
    /\ UNCHANGED <<user_tokens, token_lookup, rot_old, rot_new>>
    /\ UNCHANGED <<auth_pc, auth_token, auth_user, issued, last_set, retired, beside_tokens>>

\* RedisManager.set_user_token, first SET: user -> token
RedisSetUser(r) ==
    /\ rot_pc[r] = "set_user"
    /\ user_tokens' = [user_tokens EXCEPT ![RotUser(r)] = rot_new[r]]
    /\ rot_pc' = [rot_pc EXCEPT ![r] = "set_lookup"]
    /\ UNCHANGED <<token_lookup, user_token_row, rot_old, rot_new>>
    /\ UNCHANGED <<auth_pc, auth_token, auth_user, issued, last_set, retired, beside_tokens>>

\* RedisManager.set_user_token, second SET: token -> user; the handler responds
RedisSetLookup(r) ==
    /\ rot_pc[r] = "set_lookup"
    /\ token_lookup' = [token_lookup EXCEPT ![rot_new[r]] = RotUser(r)]
    /\ rot_pc' = [rot_pc EXCEPT ![r] = "idle"]
    /\ last_set' = [last_set EXCEPT ![RotUser(r)] = rot_new[r]]
    /\ retired' = retired \cup ({rot_old[r]} \ {NoToken})
    /\ UNCHANGED <<user_tokens, user_token_row, rot_old, rot_new>>
    /\ UNCHANGED <<auth_pc, auth_token, auth_user, issued, beside_tokens>>

\* MemoryManager.set_user_token: the token -> user map after the call
MemTokenLookup(u, t) ==
    [x \in Tokens |->
        IF x = t THEN u
        ELSE IF x = user_tokens[u] THEN NoUser
        ELSE token_lookup[x]]

\* get_user_from_token: the token is not in the HotStore, query the user_token table
AuthMiss(t) ==
    /\ auth_pc = "idle"
    /\ t <= issued
    /\ token_lookup[t] = NoUser
    /\ auth_token' = t
    /\ auth_pc' = "db"
    /\ UNCHANGED <<user_tokens, token_lookup, user_token_row, rot_pc, rot_old, rot_new>>
    /\ UNCHANGED <<auth_user, issued, last_set, retired, beside_tokens>>

\* the query runs: the row holding the token, or 401
AuthDbRead ==
    /\ auth_pc = "db"
    /\ IF \E u \in Users : user_token_row[u] = auth_token
       THEN /\ auth_user' = CHOOSE u \in Users : user_token_row[u] = auth_token
            /\ auth_pc' = "cache"
       ELSE /\ auth_pc' = "idle"
            /\ UNCHANGED auth_user
    /\ UNCHANGED <<user_tokens, token_lookup, user_token_row, rot_pc, rot_old, rot_new>>
    /\ UNCHANGED <<auth_token, issued, last_set, retired, beside_tokens>>

\* the handler resumes and caches the token: MemoryManager.set_user_token
AuthCache ==
    /\ auth_pc = "cache"
    /\ token_lookup' = MemTokenLookup(auth_user, auth_token)
    /\ user_tokens' = [user_tokens EXCEPT ![auth_user] = auth_token]
    /\ last_set' = [last_set EXCEPT ![auth_user] = auth_token]
    /\ auth_pc' = "idle"
    /\ UNCHANGED <<user_token_row, rot_pc, rot_old, rot_new>>
    /\ UNCHANGED <<auth_token, auth_user, issued, retired, beside_tokens>>

NextTokens ==
    \/ \E r \in RotProcs : RotateRead(r)
    \/ \E r \in RotProcs : RotateCreate(r)
    \/ \E r \in RotProcs : RotateDelete(r)
    \/ \E r \in RotProcs : RotateCommit(r)
    \/ \E r \in RotProcs : RedisSetUser(r)
    \/ \E r \in RotProcs : RedisSetLookup(r)
    \/ \E t \in Tokens : AuthMiss(t)
    \/ AuthDbRead
    \/ AuthCache

SpecTokens == InitBase /\ [][NextTokens]_vars

(***************************************************************************)
(* Discounts: DiscountService.get_user_discount reads the cache and, on a  *)
(* miss, the user row and the deposit sum, each behind an await; the admin *)
(* endpoints and the payment webhook change the durable state and then     *)
(* recompute the cache entry.  The cached float is written with str() and  *)
(* read back with float(), which returns the value that was written.       *)
(***************************************************************************)
\* a faulty variant of CacheHit: the cached entry is never used
CacheHitNever(cached_discount) == FALSE

\* cached_discount is not None
CacheHit(cached_discount) == cached_discount # NoDiscount

\* a request of the handler and a cache-miss computation are both in progress
Overlap(apc, gpc) == apc # "idle" /\ \E d \in DProcs : gpc[d] # "idle"

\* GET of the cache key: a hit returns the cached value
DiscountCacheGet(d, u) ==
    /\ gd_pc[d] = "idle"
    /\ ncalls < MaxCalls
    /\ \A e \in DProcs : e < d => gd_pc[e] # "idle"
    /\ ncalls' = ncalls + 1
    /\ IF CacheHit(discount_cache[u])
       THEN /\ last_call' = [last_call EXCEPT ![u] =
                                [value |-> discount_cache[u], queries |-> 0]]
            /\ fresh' = [fresh EXCEPT ![u] = TRUE]
            /\ UNCHANGED gd_pc
       ELSE /\ gd_pc' = [gd_pc EXCEPT ![d] = "user"]
            /\ UNCHANGED <<last_call, fresh>>
    /\ raced' = (raced \/ Overlap(adm_pc, gd_pc'))
    /\ UNCHANGED <<credits, discount_cache, custom_discount, deposit_sum, credit_row>>
    /\ UNCHANGED <<gd_custom, gd_final, adm_pc, adm_user, adm_amount, adm_balance>>
    /\ UNCHANGED <<adm_custom, adm_final, nevents, nexpired, beside_discounts>>

\* cache miss: select(User); a custom discount is the final discount
DiscountUser(d, u) ==
    /\ gd_pc[d] = "user"
    /\ gd_custom' = [gd_custom EXCEPT ![d] = custom_discount[u]]
    /\ IF custom_discount[u] # NoDiscount
       THEN /\ gd_final' = [gd_final EXCEPT ![d] = custom_discount[u]]
            /\ gd_pc' = [gd_pc EXCEPT ![d] = "set"]
       ELSE /\ gd_pc' = [gd_pc EXCEPT ![d] = "sum"]
            /\ UNCHANGED gd_final
    /\ UNCHANGED <<credits, discount_cache, custom_discount, deposit_sum, credit_row>>
    /\ UNCHANGED <<adm_pc, adm_user, adm_amount, adm_balance, adm_custom, adm_final>>
    /\ UNCHANGED <<ncalls, nevents, nexpired, last_call, fresh, raced, beside_discounts>>

\* calculate_user_tier: the deposit-sum query
DiscountSum(d, u) ==
    /\ gd_pc[d] = "sum"
    /\ gd_final' = [gd_final EXCEPT ![d] = TierDiscount(deposit_sum[u])]
    /\ gd_pc' = [gd_pc EXCEPT ![d] = "set"]
    /\ UNCHANGED <<credits, discount_cache, custom_discount, deposit_sum, credit_row>>
    /\ UNCHANGED <<gd_custom, adm_pc, adm_user, adm_amount, adm_balance, adm_custom>>
    /\ UNCHANGED <<adm_final, ncalls, nevents, nexpired, last_call, fresh, raced>>
    /\ UNCHANGED beside_discounts

\* SETEX of the cache key, then the call returns final_discount
DiscountSet(d, u) ==
    /\ gd_pc[d] = "set"
    /\ discount_cache' = [discount_cache EXCEPT ![u] = gd_final[d]]
    /\ last_call' = [last_call EXCEPT ![u] =
                        [value |-> gd_final[d],
                         queries |-> IF gd_custom[d] # NoDiscount THEN 1 ELSE 2]]
    /\ fresh' = [fresh EXCEPT ![u] = TRUE]
    /\ gd_pc' = [gd_pc EXCEPT ![d] = "idle"]
    /\ UNCHANGED <<credits, custom_discount, deposit_sum, credit_row>>
    /\ UNCHANGED <<gd_custom, gd_final, adm_pc, adm_user, adm_amount, adm_balance>>
    /\ UNCHANGED <<adm_custom, adm_final, ncalls, nevents, nexpired, raced>>
    /\ UNCHANGED beside_discounts

\* the TTL of the cache entry runs out
Expire(u) ==
    /\ nexpired < MaxExpiries
    /\ discount_cache[u] # NoDiscount
    /\ discount_cache' = [discount_cache EXCEPT ![u] = NoDiscount]
    /\ fresh' = [fresh EXCEPT ![u] = FALSE]
    /\ nexpired' = nexpired + 1
    /\ UNCHANGED <<credits, custom_discount, deposit_sum, credit_row>>
    /\ UNCHANGED <<gd_pc, gd_custom, gd_final, adm_pc, adm_user, adm_amount, adm_balance>>
    /\ UNCHANGED <<adm_custom, adm_final, ncalls, nevents, last_call, raced>>
    /\ UNCHANGED beside_discounts

\* POST /discount/set: user.custom_discount = request.discount; commit
SetCustomDiscount(u, discount) ==
    /\ adm_pc = "idle"
    /\ nevents < MaxEvents
    /\ discount # custom_discount[u]
    /\ nevents' = nevents + 1
    /\ custom_discount' = [custom_discount EXCEPT ![u] = discount]
    /\ adm_user' = u
    /\ adm_pc' = "user"
    /\ raced' = (raced \/ Overlap(adm_pc', gd_pc))
    /\ UNCHANGED <<credits, discount_cache, deposit_sum, credit_row>>
    /\ UNCHANGED <<gd_pc, gd_custom, gd_final, adm_amount, adm_balance>>
    /\ UNCHANGED <<adm_custom, adm_final, ncalls, nexpired, last_call, fresh>>
    /\ UNCHANGED beside_discounts

\* CreditService.add_credits up to its first await: the HotStore balance is
\* incremented and the deposit row is added to the session
AddCredits(u, amount) ==
    /\ adm_pc = "idle"
    /\ nevents < MaxEvents
    /\ nevents' = nevents + 1
    /\ credits' = [credits EXCEPT ![u] = IncrementUserCredit(credits[u], amount)]
    /\ adm_balance' = IncrementUserCredit(credits[u], amount)
    /\ adm_amount' = amount
    /\ adm_user' = u
    /\ adm_pc' = "row"
    /\ raced' = (raced \/ Overlap(adm_pc', gd_pc))
    /\ UNCHANGED <<discount_cache, custom_discount, deposit_sum, credit_row>>
    /\ UNCHANGED <<gd_pc, gd_custom, gd_final, adm_custom, adm_final>>
    /\ UNCHANGED <<ncalls, nexpired, last_call, fresh, beside_discounts>>

\* user_credit.credits = new_balance; commit: the balance row and the deposit
\* row become durable
AddCreditsCommit ==
    /\ adm_pc = "row"
    /\ credit_row' = [credit_row EXCEPT ![adm_user] = adm_balance]
    /\ deposit_sum' = [deposit_sum EXCEPT ![adm_user] = @ + adm_amount]
    /\ adm_pc' = "user"
    /\ UNCHANGED <<credits, discount_cache, custom_discount>>
    /\ UNCHANGED <<gd_pc, gd_custom, gd_final, adm_user, adm_amount, adm_balance>>
    /\ UNCHANGED <<adm_custom, adm_final, ncalls, nevents, nexpired, last_call>>
    /\ UNCHANGED <<fresh, raced, beside_discounts>>

\* recalculate_and_cache_discount: select(User)
RecalculateUser ==
    /\ adm_pc = "user"
    /\ adm_custom' = custom_discount[adm_user]
    /\ IF custom_discount[adm_user] # NoDiscount
       THEN /\ adm_final' = custom_discount[adm_user]
            /\ adm_pc' = "set"
       ELSE /\ adm_pc' = "sum"
            /\ UNCHANGED adm_final
    /\ UNCHANGED <<credits, discount_cache, custom_discount, deposit_sum, credit_row>>
    /\ UNCHANGED <<gd_pc, gd_custom, gd_final, adm_user, adm_amount, adm_balance>>
    /\ UNCHANGED <<ncalls, nevents, nexpired, last_call, fresh, raced, beside_discounts>>

\* recalculate_and_cache_discount: calculate_user_tier
RecalculateSum ==
    /\ adm_pc = "sum"
    /\ adm_final' = TierDiscount(deposit_sum[adm_user])
    /\ adm_pc' = "set"
    /\ UNCHANGED <<credits, discount_cache, custom_discount, deposit_sum, credit_row>>
    /\ UNCHANGED <<gd_pc, gd_custom, gd_final, adm_user, adm_amount, adm_balance>>
    /\ UNCHANGED <<adm_custom, ncalls, nevents, nexpired, last_call, fresh, raced>>
    /\ UNCHANGED beside_discounts

\* recalculate_and_cache_discount: SETEX; the handler responds
RecalculateSet ==
    /\ adm_pc = "set"
    /\ discount_cache' = [discount_cache EXCEPT ![adm_user] = adm_final]
    /\ fresh' = [fresh EXCEPT ![adm_user] = FALSE]
    /\ adm_pc' = "idle"
    /\ UNCHANGED <<credits, custom_discount, deposit_sum, credit_row>>
    /\ UNCHANGED <<gd_pc, gd_custom, gd_final, adm_user, adm_amount, adm_balance>>
    /\ UNCHANGED <<adm_custom, adm_final, ncalls, nevents, nexpired, last_call, raced>>
    /\ UNCHANGED beside_discounts

NextDiscount ==
    \/ \E d \in DProcs, u \in Users : DiscountCacheGet(d, u)
    \/ \E d \in DProcs, u \in Users : DiscountUser(d, u)
    \/ \E d \in DProcs, u \in Users : DiscountSum(d, u)
    \/ \E d \in DProcs, u \in Users : DiscountSet(d, u)
    \/ \E u \in Users : Expire(u)
    \/ \E u \in Users, discount \in DiscountSettings : SetCustomDiscount(u, discount)
    \/ \E u \in Users, amount \in DepositAmounts : AddCredits(u, amount)
    \/ AddCreditsCommit
    \/ RecalculateUser
    \/ RecalculateSum
    \/ RecalculateSet

SpecDiscount == InitBase /\ [][NextDiscount]_vars

(***************************************************************************)
(* Tier selection: DiscountService.calculate_user_tier on any tier table.  *)
(***************************************************************************)
\* sorted(): x goes behind every element whose key is not greater (stable)
RECURSIVE InsertByWeeklyCredit(_, _)
InsertByWeeklyCredit(x, sorted) ==
    IF sorted = <<>> THEN <<x>>
    ELSE IF Head(sorted).weekly_credit <= x.weekly_credit
         THEN <<Head(sorted)>> \o InsertByWeeklyCredit(x, Tail(sorted))
         ELSE <<x>> \o sorted

\* ranks_sorted = sorted(settings.RANKS.items(), key = weekly_credit)
RECURSIVE RanksSorted(_)
RanksSorted(ranks) ==
    IF ranks = <<>> THEN <<>>
    ELSE InsertByWeeklyCredit(ranks[Len(ranks)],
                              RanksSorted(SubSeq(ranks, 1, Len(ranks) - 1)))

\* a faulty variant of Qualifies: the threshold itself does not qualify
QualifiesAbove(amount, tier_info) == amount > tier_info.weekly_credit

\* deposit_amount >= tier_info["weekly_credit"]
Qualifies(amount, tier_info) == amount >= tier_info.weekly_credit

\* the loop over ranks_sorted: the last tier that qualifies
RECURSIVE CurrentTier(_, _, _, _)
CurrentTier(ranks_sorted, amount, i, current) ==
    IF i > Len(ranks_sorted) THEN current
    ELSE CurrentTier(ranks_sorted, amount, i + 1,
                     IF Qualifies(amount, ranks_sorted[i])
                     THEN ranks_sorted[i] ELSE current)

\* calculate_user_tier: default to the first sorted tier, then the loop
CalculateUserTier(ranks, amount) ==
    CurrentTier(RanksSorted(ranks), amount, 1, RanksSorted(ranks)[1])

CalculateTier ==
    /\ tier_current = NoTier
    /\ tier_current' = CalculateUserTier(tier_ranks, tier_deposit)
    /\ UNCHANGED <<tier_ranks, tier_deposit, beside_tiers>>

NextTiers == CalculateTier

InitTiers ==
    /\ InitCore(BaseConfig)
    /\ InitAuxBefore
    /\ \E thresholds \in TierTables, d \in DepositSums : InitTier(thresholds, d)
    /\ InitAuxAfter

SpecTiers == InitTiers /\ [][NextTiers]_vars

(***************************************************************************)
(* Transaction log: TransactionHistoryProcessor.  Request handlers append  *)
(* to the queue; the loop adds the queue to the session, awaits the commit,*)
(* clears the queue and sleeps.  The records are numbered in the order of  *)
(* their add.                                                              *)
(***************************************************************************)
\* the elements of a list
Elems(q) == {q[i] : i \in DOMAIN q}

\* add(transaction): queue.append
Add ==
    /\ th_pc # "done"
    /\ nrecs < MaxRecords
    /\ nrecs' = nrecs + 1
    /\ queue' = Append(queue, nrecs + 1)
    /\ added_running' = IF running THEN added_running \cup {nrecs + 1} ELSE added_running
    /\ UNCHANGED <<running, th_pc, th_session, persisted, beside_tlog>>

\* while self.running: if self.queue: add_all(self.queue), start the commit
ProcessCheck ==
    /\ th_pc = "check"
    /\ IF ~running
       THEN /\ th_pc' = "done"
            /\ UNCHANGED th_session
       ELSE IF queue # << >>
            THEN /\ th_session' = Elems(queue)
                 /\ th_pc' = "commit"
            ELSE /\ th_pc' = "sleep"
                 /\ UNCHANGED th_session
    /\ UNCHANGED <<queue, running, persisted, nrecs, added_running, beside_tlog>>

\* self.queue.clear()
QueueCleared(q) == << >>

\* the commit returns: the session's records are rows; queue.clear(); sleep
ProcessCommit ==
    /\ th_pc = "commit"
    /\ persisted' = [r \in Records |-> IF r \in th_session THEN persisted[r] + 1
                                        ELSE persisted[r]]
    /\ th_session' = {}
    /\ queue' = QueueCleared(queue)
    /\ th_pc' = "sleep"
    /\ UNCHANGED <<running, nrecs, added_running, beside_tlog>>

\* asyncio.sleep(interval) returns
ProcessWake ==
    /\ th_pc = "sleep"
    /\ th_pc' = "check"
    /\ UNCHANGED <<queue, running, th_session, persisted, nrecs, added_running>>
    /\ UNCHANGED beside_tlog

\* stop(): running = False
Stop ==
    /\ running
    /\ running' = FALSE
    /\ UNCHANGED <<queue, th_pc, th_session, persisted, nrecs, added_running>>
    /\ UNCHANGED beside_tlog

NextLog ==
    \/ Add
    \/ ProcessCheck
    \/ ProcessCommit
    \/ ProcessWake
    \/ Stop

SpecLog == InitBase /\ [][NextLog]_vars

(***************************************************************************)
(* Scheduler: BackgroundScheduler.run_periodic_sync.  One try block holds  *)
(* the whole for loop over the registered tasks.                           *)
(***************************************************************************)
\* task["timer"] -= SYNC_INTERVAL_SECONDS
Decremented(t) == t - SYNC_INTERVAL_SECONDS

\* a faulty variant of TimerExpired: a countdown of exactly 0 has not run out
TimerExpiredBelowZero(t) == t < 0

\* if task["timer"] <= 0
TimerExpired(t) == t <= 0

\* an iteration of the while loop starts: enter the try block and the for loop
Tick ==
    /\ sch_pc = "sleep"
    /\ nticks < MaxTicks
    /\ nticks' = nticks + 1
    /\ sch_cur' = 1
    /\ sch_pc' = "for"
    /\ ran' = {}
    /\ order' = << >>
    /\ due' = {i \in Tasks : TimerExpired(Decremented(ideal_timer[i]))}
    /\ ideal_timer' = [i \in Tasks |->
                          IF TimerExpired(Decremented(ideal_timer[i]))
                          THEN Intervals[i] ELSE Decremented(ideal_timer[i])]
    /\ UNCHANGED <<timer, raised, beside_sched>>

\* the timer of the task has not run out: next task
TaskWait ==
    /\ sch_pc = "for"
    /\ sch_cur \in Tasks
    /\ ~TimerExpired(Decremented(timer[sch_cur]))
    /\ timer' = [timer EXCEPT ![sch_cur] = Decremented(@)]
    /\ sch_cur' = sch_cur + 1
    /\ UNCHANGED <<sch_pc, nticks, ran, due, ideal_timer, raised, order, beside_sched>>

\* await task["func"]() returns: the timer is reset, next task
TaskRun ==
    /\ sch_pc = "for"
    /\ sch_cur \in Tasks
    /\ TimerExpired(Decremented(timer[sch_cur]))
    /\ timer' = [timer EXCEPT ![sch_cur] = Intervals[sch_cur]]
    /\ ran' = ran \cup {sch_cur}
    /\ order' = Append(order, sch_cur)
    /\ sch_cur' = sch_cur + 1
    /\ UNCHANGED <<sch_pc, nticks, due, ideal_timer, raised, beside_sched>>

\* await task["func"]() raises: the except clause logs, the for loop is left
TaskRaise ==
    /\ sch_pc = "for"
    /\ sch_cur \in Tasks
    /\ TimerExpired(Decremented(timer[sch_cur]))
    /\ timer' = [timer EXCEPT ![sch_cur] = Decremented(@)]
    /\ ran' = ran \cup {sch_cur}
    /\ order' = Append(order, sch_cur)
    /\ raised' = raised \cup {sch_cur}
    /\ sch_pc' = "sleep"
    /\ UNCHANGED <<sch_cur, nticks, due, ideal_timer, beside_sched>>

\* the for loop is exhausted: asyncio.sleep
ForEnd ==
    /\ sch_pc = "for"
    /\ sch_cur \notin Tasks
    /\ sch_pc' = "sleep"
    /\ UNCHANGED <<sch_cur, timer, nticks, ran, due, ideal_timer, raised, order>>
    /\ UNCHANGED beside_sched

NextSched ==
    \/ Tick
    \/ TaskWait
    \/ TaskRun
    \/ TaskRaise
    \/ ForEnd

SpecSched == InitBase /\ [][NextSched]_vars

(***************************************************************************)
(* Reconciliation: sync_all_credits_to_postgres copies the HotStore        *)
(* balances that differ from the last synced value into the user_credit    *)
(* rows.  It runs beside purchases and CreditService.add_credits, which    *)
(* writes the row itself.                                                  *)
(***************************************************************************)
\* not (last_synced_credits[user_id] == memory_credit)
Changed(last, memory_credit) == last # memory_credit

\* get_all_credits, filter the changed users, start the SELECT (or return)
SyncStart ==
    /\ sync_pc = "idle"
    /\ nsyncs < MaxSyncs
    /\ nsyncs' = nsyncs + 1
    /\ all_credits' = credits
    /\ changed_user_ids' = {u \in Users : Changed(last_synced_credits[u], credits[u])}
    /\ sync_pc' = IF changed_user_ids' = {} THEN "idle" ELSE "select"
    /\ tried' = {}
    /\ UNCHANGED <<credit_row, sync_dirty, last_synced_credits, nfailed, beside_sync>>

\* the SELECT returns: set the rows that differ, track the values, start the commit
SyncSelect ==
    /\ sync_pc = "select"
    /\ sync_dirty' = {u \in changed_user_ids : credit_row[u] # all_credits[u]}
    /\ last_synced_credits' = [u \in Users |->
                                  IF u \in changed_user_ids THEN all_credits[u]
                                  ELSE last_synced_credits[u]]
    /\ sync_pc' = "commit"
    /\ UNCHANGED <<credit_row, all_credits, changed_user_ids, nsyncs, nfailed, tried>>
    /\ UNCHANGED beside_sync

\* the commit succeeds: the modified rows are written
SyncCommit ==
    /\ sync_pc = "commit"
    /\ credit_row' = [u \in Users |->
                         IF u \in sync_dirty THEN all_credits[u] ELSE credit_row[u]]
    /\ sync_dirty' = {}
    /\ sync_pc' = "idle"
    /\ UNCHANGED <<all_credits, changed_user_ids, last_synced_credits, nsyncs>>
    /\ UNCHANGED <<nfailed, tried, beside_sync>>

\* the commit raises: the except clause logs and rolls back
SyncCommitFails ==
    /\ sync_pc = "commit"
    /\ nfailed < MaxFailures
    /\ nfailed' = nfailed + 1
    /\ tried' = sync_dirty
    /\ sync_dirty' = {}
    /\ sync_pc' = "idle"
    /\ UNCHANGED <<credit_row, all_credits, changed_user_ids, last_synced_credits>>
    /\ UNCHANGED <<nsyncs, beside_sync>>

NextSync ==
    \/ \E p \in Procs, u \in Users : Request(p, u, "gmail", 1)
    \/ \E p \in Procs : GetDiscount(p)
    \/ \E p \in Procs : MemPurchase(p)
    \/ AddItems("gmail", {"a", "b"})
    \/ \E u \in Users, amount \in DepositAmounts : AddCredits(u, amount)
    \/ AddCreditsCommit
    \/ RecalculateUser
    \/ RecalculateSum
    \/ RecalculateSet
    \/ SyncStart
    \/ SyncSelect
    \/ SyncCommit
    \/ SyncCommitFails

SpecSync == InitBase /\ [][NextSync]_vars

(***************************************************************************)
(* Startup: lifespan awaits load_data_from_postgres, then start(), which   *)
(* loads once more and creates the task of the scheduler loop.  The load   *)
(* catches every exception of its two SELECTs, logs it and returns.        *)
(***************************************************************************)
\* the position after a load has returned
AfterLoad(position) ==
    IF position \in {"lifespan_credits", "lifespan_tokens"} THEN "start_credits"
    ELSE "create_task"

\* MemoryManager.set_user_credit of a loaded row
LoadedCredit(credit) == RoundHalfEven(credit)

\* MemoryManager.set_user_token for every loaded row
LoadedLookup ==
    [x \in Tokens |->
        IF \E u \in Users : user_token_row[u] = x
        THEN CHOOSE u \in Users : user_token_row[u] = x
        ELSE IF \E u \in Users : user_token_row[u] # NoToken /\ user_tokens[u] = x
        THEN NoUser
        ELSE token_lookup[x]]

\* select(UserCredit) returns: set and track every balance, start select(UserToken)
LoadCredits ==
    /\ boot_pc \in {"lifespan_credits", "start_credits"}
    /\ credits' = [u \in Users |->
                      IF credit_row[u] # NoCredit THEN LoadedCredit(credit_row[u])
                      ELSE credits[u]]
    /\ last_synced_credits' = [u \in Users |->
                                  IF credit_row[u] # NoCredit THEN credit_row[u]
                                  ELSE last_synced_credits[u]]
    /\ boot_pc' = IF boot_pc = "lifespan_credits" THEN "lifespan_tokens"
                  ELSE "start_tokens"
    /\ UNCHANGED <<user_tokens, token_lookup, last_synced_tokens, sch_pc>>
    /\ UNCHANGED beside_boot

\* select(UserToken) returns: set and track every token
LoadTokens ==
    /\ boot_pc \in {"lifespan_tokens", "start_tokens"}
    /\ user_tokens' = [u \in Users |->
                          IF user_token_row[u] # NoToken THEN user_token_row[u]
                          ELSE user_tokens[u]]
    /\ token_lookup' = LoadedLookup
    /\ last_synced_tokens' = [u \in Users |->
                                 IF user_token_row[u] # NoToken THEN user_token_row[u]
                                 ELSE last_synced_tokens[u]]
    /\ boot_pc' = AfterLoad(boot_pc)
    /\ UNCHANGED <<credits, last_synced_credits, sch_pc>>
    /\ UNCHANGED beside_boot

\* a SELECT of the load raises: the except clause logs, the load returns
LoadFails ==
    /\ boot_pc \in {"lifespan_credits", "lifespan_tokens", "start_credits", "start_tokens"}
    /\ boot_pc' = AfterLoad(boot_pc)
    /\ UNCHANGED <<credits, user_tokens, token_lookup, last_synced_credits>>
    /\ UNCHANGED <<last_synced_tokens, sch_pc, beside_boot>>

\* start(): _running = True, create_task(run_periodic_sync())
CreateTask ==
    /\ boot_pc = "create_task"
    /\ boot_pc' = "started"
    /\ sch_pc' = "sleep"
    /\ UNCHANGED <<credits, user_tokens, token_lookup, last_synced_credits>>
    /\ UNCHANGED <<last_synced_tokens, beside_boot>>

NextBoot ==
    \/ LoadCredits
    \/ LoadTokens
    \/ LoadFails
    \/ CreateTask
    \/ Tick
    \/ TaskWait
    \/ TaskRun
    \/ TaskRaise
    \/ ForEnd

\* the user_credit and user_token rows a restarted process finds
BootRows == [balance : {BaseConfig.balance, 5 * Credit}, token : {NoToken} \cup Tokens]

\* a process start: empty HotStore, empty last-synced maps, no scheduler task yet
InitBoot ==
    \E rows \in BootRows :
        /\ InitCoreWith(BaseConfig, [u \in Users |-> NoCredit])
        /\ InitTokensWith([u \in Users |-> rows.token], rows.token)
        /\ credit_row = [u \in Users |-> rows.balance]
        /\ InitDiscounts
        /\ InitTier(<<0>>, 0)
        /\ InitLog
        /\ InitSchedWith("off")
        /\ InitSyncWith([u \in Users |-> NoCredit])
        /\ boot_pc = "lifespan_credits"
        /\ last_synced_tokens = [u \in Users |-> NoToken]
        /\ InitRest

SpecBoot == InitBoot /\ [][NextBoot]_vars

(***************************************************************************)
(* Shutdown of the scheduler: stop() clears the flag and cancels the       *)
(* loop's task, which raises CancelledError at the await the task is       *)
(* suspended in.  When that await is the commit of a credit_sync run, the  *)
(* commit has or has not taken effect.                                     *)
(***************************************************************************)
\* the rows after a commit of the run's session
Committed(rows) ==
    [u \in Users |-> IF u \in sync_dirty THEN all_credits[u] ELSE rows[u]]

\* stop(): _running = False; _task.cancel(); await _task
StopScheduler ==
    /\ sync_pc \in {"idle", "select", "commit"}
    /\ sync_pc' = "stopped"
    /\ sch_pc' = "off"
    /\ \/ /\ sync_pc = "commit"
          /\ credit_row' = Committed(credit_row)
          /\ sync_dirty' = {}
       \/ UNCHANGED <<credit_row, sync_dirty>>
    /\ UNCHANGED <<all_credits, changed_user_ids, last_synced_credits, nsyncs, nfailed>>
    /\ UNCHANGED <<tried, core, tokens, discounts, tiers, tlog, boot, rest>>
    /\ UNCHANGED <<sch_cur, timer, nticks, ran, due, ideal_timer, raised, order>>

NextStop ==
    \/ \E u \in Users, amount \in DepositAmounts : AddCredits(u, amount)
    \/ AddCreditsCommit
    \/ RecalculateUser
    \/ RecalculateSum
    \/ RecalculateSet
    \/ SyncStart
    \/ SyncSelect
    \/ SyncCommit
    \/ SyncCommitFails
    \/ StopScheduler

SpecStop == InitBase /\ [][NextStop]_vars

(***************************************************************************)
(* POST /datapool/add with a list of items, sent twice.  The memory branch *)
(* updates the set with the list; the db branch looks every item up and    *)
(* adds a row when none exists (the session flushes the rows added so far  *)
(* before each lookup).                                                    *)
(***************************************************************************)
\* a faulty variant of Existing: the lookup never finds a row
ExistingNever(rows, item) == FALSE

\* select(DataPool).where(DataPool.data == item) finds a row
Existing(rows, item) == rows[item] # NoType

\* the db branch's loop over data_group.items: the rows and added_count after it
RECURSIVE DbAddLoop(_, _, _, _, _)
DbAddLoop(rows, t, data_items, i, added_count) ==
    IF i > Len(data_items) THEN [rows |-> rows, added_count |-> added_count]
    ELSE IF Existing(rows, data_items[i])
         THEN DbAddLoop(rows, t, data_items, i + 1, added_count)
         ELSE DbAddLoop([rows EXCEPT ![data_items[i]] = t], t, data_items, i + 1,
                        added_count + 1)

\* the items a call finds present: the set of the type, or the data_pool rows
Present(t) ==
    IF TypeStorage(t) = "fast" THEN pools[t] ELSE {i \in Items : data_pool[i] # NoType}

\* one group of POST /datapool/add: the pool after it, added_count, pool_size
AddDataToPool(t, data_items) ==
    /\ IF TypeStorage(t) = "fast"
       THEN /\ pools' = [pools EXCEPT ![t] = @ \cup Elems(data_items)]
            /\ ai_added' = Append(ai_added, MemAddedCount(pools[t], Elems(data_items)))
            /\ added' = [added EXCEPT ![t] = @ + MemAddedCount(pools[t], Elems(data_items))]
            /\ UNCHANGED data_pool
       ELSE /\ data_pool' = DbAddLoop(data_pool, t, data_items, 1, 0).rows
            /\ ai_added' = Append(ai_added, DbAddLoop(data_pool, t, data_items, 1, 0).added_count)
            /\ added' = [added EXCEPT ![t] =
                            @ + DbAddLoop(data_pool, t, data_items, 1, 0).added_count]
            /\ UNCHANGED pools
    /\ UNCHANGED <<credits, sold_data, discount_cache>>
    /\ UNCHANGED <<custom_discount, deposit_sum, data_pool_sold, row_lock>>
    /\ ai_pool_size' = IF ai_pool_size = << >>
                       THEN <<PoolSize(t), PoolSize(t)'>>
                       ELSE Append(ai_pool_size, PoolSize(t)')
    /\ ai_calls' = ai_calls + 1
    /\ UNCHANGED <<queue, type_price, locals, deposited, spent, returned, counters>>
    /\ UNCHANGED beside_adds

\* the request is sent
FirstAdd(t, data_items) ==
    /\ ai_calls = 0
    /\ ai_type' = t
    /\ ai_items' = data_items
    /\ ai_before' = Present(t)
    /\ AddDataToPool(t, data_items)

\* the same request is sent again
RepeatAdd ==
    /\ ai_calls = 1
    /\ UNCHANGED <<ai_type, ai_items, ai_before>>
    /\ AddDataToPool(ai_type, ai_items)

NextAdds ==
    \/ \E t \in Types, items \in ItemBatches : AddItems(t, items)
    \/ \E t \in Types, data_items \in ItemLists : FirstAdd(t, data_items)
    \/ RepeatAdd

SpecAdds == InitBase /\ [][NextAdds]_vars

(***************************************************************************)
(* Deposits and fast-path purchases of one user, interleaved: every        *)
(* MemoryManager call runs to its end without an await.                    *)
(***************************************************************************)
NextBalance ==
    \/ \E p \in Procs, u \in Users, a \in {1, 2} : Request(p, u, "gmail", a)
    \/ \E p \in Procs : GetDiscount(p)
    \/ \E p \in Procs : MemPurchase(p)
    \/ AddItems("gmail", {"a", "b"})
    \/ \E u \in Users, amount \in DepositAmounts : AddCredits(u, amount)
    \/ AddCreditsCommit
    \/ RecalculateUser
    \/ RecalculateSum
    \/ RecalculateSet

SpecBalance == InitBase /\ [][NextBalance]_vars

(***************************************************************************)
(* CreditService.purchase_data when building or enqueuing the Transaction  *)
(* raises: the exception is caught, the request's session is rolled back   *)
(* and the result of the memory purchase is returned.                      *)
(***************************************************************************)
\* a faulty variant of AfterRollback: the deduction is given back
AfterRollbackRefunds(balance, deducted) == balance + deducted

\* await db.rollback(): the session of the request holds no pending change
\* and the HotStore is not part of it
AfterRollback(balance, deducted) == balance

\* the purchase succeeds in memory, transaction_history_processor.add raises
MemPurchaseEnqueueFails(p) ==
    /\ pc[p] = "fast"
    /\ LET u == req[p].user
           t == req[p].type
           dcpi == DiscountedCostPerItem(type_price[t], disc[p])
           total_cost == req[p].amount * dcpi
       IN  /\ ~InsufficientCredit(credits[u], total_cost)
           /\ ~PoolEmpty(pools[t])
           /\ \E S \in Pick(pools[t], Available(req[p].amount, Cardinality(pools[t]))) :
                LET actual_cost == MemActualCost(Cardinality(S), dcpi)
                    new_credit == IncrementUserCredit(credits[u], -actual_cost)
                IN  /\ pools' = [pools EXCEPT ![t] = @ \ S]
                    /\ credits' = [credits EXCEPT ![u] = new_credit]
                    /\ sold_data' = [sold_data EXCEPT ![u] = @ \cup S]
                    /\ held' = [held EXCEPT ![p] = S]
                    /\ charged' = [charged EXCEPT ![p] = credits[u] - new_credit]
                    /\ spent' = [spent EXCEPT ![u] = @ + actual_cost]
                    /\ returned' = [returned EXCEPT ![t] =
                                       [i \in Items |-> IF i \in S THEN @[i] + 1 ELSE @[i]]]
                    /\ result' = [result EXCEPT ![p] =
                                     [status |-> "success", data |-> S, cost |-> actual_cost,
                                      credit_remaining |-> new_credit]]
    /\ pc' = [pc EXCEPT ![p] = "rollback"]
    /\ UNCHANGED <<queue, logged, attempts>>
    /\ UNCHANGED <<discount_cache, durable, type_price, req, disc, cost, snap, cand>>
    /\ UNCHANGED <<deposited, added, counters>>
    /\ UNCHANGED aux

\* except Exception: logging.error; await db.rollback(); return result
PurchaseRollback(p) ==
    /\ pc[p] = "rollback"
    /\ credits' = [credits EXCEPT ![req[p].user] = AfterRollback(@, charged[p])]
    /\ pc' = [pc EXCEPT ![p] = "done"]
    /\ UNCHANGED <<pools, sold_data, discount_cache, durable, queue, type_price>>
    /\ UNCHANGED <<req, disc, cost, snap, cand, held, charged, logged, attempts, result>>
    /\ UNCHANGED <<history, counters>>
    /\ UNCHANGED aux

NextEnqueue ==
    \/ \E p \in Procs, u \in Users, a \in {1, 2} : Request(p, u, "gmail", a)
    \/ \E p \in Procs : GetDiscount(p)
    \/ \E p \in Procs : MemPurchase(p)
    \/ \E p \in Procs : MemPurchaseEnqueueFails(p)
    \/ \E p \in Procs : PurchaseRollback(p)
    \/ AddItems("gmail", {"a", "b"})

SpecEnqueue == InitBase /\ [][NextEnqueue]_vars

(***************************************************************************)
(* PoolService.purchase_data under contention: requests for one item of    *)
(* the db-backed type, their discount (none) already looked up.            *)
(***************************************************************************)
\* GET /purchase for the db-backed type, up to the credit check
PopCall(p, u) ==
    /\ Free(p)
    /\ \A q \in Procs : q < p => ~Free(q)
    /\ nreq < MaxPops
    /\ nreq' = nreq + 1
    /\ req' = [req EXCEPT ![p] = [user |-> u, type |-> "hotmail", amount |-> 1]]
    /\ pc' = [pc EXCEPT ![p] = "db_check"]
    /\ result' = [result EXCEPT ![p] = NoResult]
    /\ disc' = [disc EXCEPT ![p] = 0]
    /\ cost' = [cost EXCEPT ![p] = 0]
    /\ snap' = [snap EXCEPT ![p] = {}]
    /\ cand' = [cand EXCEPT ![p] = {}]
    /\ held' = [held EXCEPT ![p] = {}]
    /\ charged' = [charged EXCEPT ![p] = 0]
    /\ logged' = [logged EXCEPT ![p] = 0]
    /\ attempts' = [attempts EXCEPT ![p] = 0]
    /\ UNCHANGED <<hot, durable, queue, type_price, history, nadds>>
    /\ UNCHANGED aux

NextPop ==
    \/ \E p \in Procs, u \in Users : PopCall(p, u)
    \/ \E p \in Procs : DbCheckCredit(p)
    \/ \E p \in Procs : DbSelect(p)
    \/ \E p \in Procs : DbLock(p)
    \/ \E p \in Procs : DbCommit(p)
    \/ \E p \in Procs : DbDeduct(p)
    \/ AddItems("hotmail", {"a", "b"})

SpecPop == InitBase /\ [][NextPop]_vars

(***************************************************************************)
(* Purchases at a price whose discounted unit price is not a whole ledger  *)
(* quantum, through MemoryManager and through the db branch.               *)
(***************************************************************************)
\* price 0.00003, custom discount 10 percent, balance 0.0001
FractionalConfig == [price |-> 3 * Unit, balance |-> 10 * Unit, custom |-> 10]

InitPrice == InitCore(FractionalConfig) /\ InitAux

NextPrice ==
    \/ \E p \in Procs, u \in Users, t \in Types, a \in Amounts : Request(p, u, t, a)
    \/ \E p \in Procs : GetDiscount(p)
    \/ \E p \in Procs : MemPurchase(p)
    \/ \E p \in Procs : DbCheckCredit(p)
    \/ \E p \in Procs : DbSelect(p)
    \/ \E p \in Procs : DbLock(p)
    \/ \E p \in Procs : DbCommit(p)
    \/ \E p \in Procs : DbDeduct(p)
    \/ \E t \in Types, items \in ItemBatches : AddItems(t, items)

SpecPrice == InitPrice /\ [][NextPrice]_vars

(***************************************************************************)
(* cleanup_old_transactions over a transactions table, and the 7-day       *)
(* deposit sum calculate_user_tier reads from the same table.              *)
(***************************************************************************)
\* a faulty variant of OldPurchase: the type of the row is not looked at
OldRow(row) == row.age > HOURS_KEPT

\* .where(Transaction.type == "purchase")
\* .where(text("timestamp < NOW() - INTERVAL '24 hours'"))
OldPurchase(row) == row.type = "purchase" /\ row.age > HOURS_KEPT

\* sum(Transaction.amount) where user_id, amount > 0, timestamp >= seven_days_ago
RECURSIVE DepositSumOf(_, _, _)
DepositSumOf(table, u, k) ==
    IF k > MaxRows THEN 0
    ELSE (IF /\ table[k] # NoRow
             /\ table[k].user_id = u
             /\ table[k].amount > 0
             /\ table[k].age <= DEPOSIT_WINDOW_HOURS
          THEN table[k].amount ELSE 0) + DepositSumOf(table, u, k + 1)

\* a Transaction row is committed (the flush loop, add_credits)
InsertRow(row) ==
    /\ \E k \in RowIds :
        /\ transaction_rows[k] = NoRow
        /\ \A j \in RowIds : j < k => transaction_rows[j] # NoRow
        /\ transaction_rows' = [transaction_rows EXCEPT ![k] = row]
    /\ UNCHANGED <<rows_before, ncleanups, beside_transactions>>

\* the delete statement and its commit
CleanupOldTransactions ==
    /\ ncleanups < MaxCleanups
    /\ ncleanups' = ncleanups + 1
    /\ rows_before' = transaction_rows
    /\ transaction_rows' = [k \in RowIds |->
                               IF transaction_rows[k] # NoRow /\ OldPurchase(transaction_rows[k])
                               THEN NoRow ELSE transaction_rows[k]]
    /\ UNCHANGED beside_transactions

\* the statement or the commit raises: logged, nothing is deleted
CleanupOldTransactionsFails ==
    /\ ncleanups < MaxCleanups
    /\ ncleanups' = ncleanups + 1
    /\ rows_before' = transaction_rows
    /\ UNCHANGED <<transaction_rows, beside_transactions>>

NextCleanup ==
    \/ \E row \in TransactionRows : InsertRow(row)
    \/ CleanupOldTransactions
    \/ CleanupOldTransactionsFails

SpecCleanup == InitBase /\ [][NextCleanup]_vars

(***************************************************************************)
(* sync_all_tokens_to_postgres, and the two reconciliation tasks running   *)
(* beside deposits and token rotations.                                    *)
(***************************************************************************)
\* a faulty variant of Reconcile: the row is copied into the HotStore
ReconcileFromRow(memory_now, memory_read, row) == [memory |-> row, row |-> row]

\* user_token.token = memory_token: the row takes the value read from the
\* HotStore, the HotStore is assigned nothing
Reconcile(memory_now, memory_read, row) == [memory |-> memory_now, row |-> memory_read]

\* get_all_tokens, filter the changed users, start the SELECT (or return)
TokenSyncStart ==
    /\ tsync_pc = "idle"
    /\ ntsyncs < MaxSyncs
    /\ ntsyncs' = ntsyncs + 1
    /\ all_tokens' = user_tokens
    /\ tsync_changed' = {u \in Users : /\ user_tokens[u] # NoToken
                                       /\ last_synced_tokens[u] # user_tokens[u]}
    /\ tsync_pc' = IF tsync_changed' = {} THEN "idle" ELSE "select"
    /\ UNCHANGED <<user_tokens, user_token_row, last_synced_tokens, beside_tsync>>

\* the SELECT returns: set the rows, track the values, start the commit
TokenSyncSelect ==
    /\ tsync_pc = "select"
    /\ last_synced_tokens' = [u \in Users |->
                                 IF u \in tsync_changed THEN all_tokens[u]
                                 ELSE last_synced_tokens[u]]
    /\ tsync_pc' = "commit"
    /\ UNCHANGED <<user_tokens, user_token_row, all_tokens, tsync_changed, ntsyncs>>
    /\ UNCHANGED beside_tsync

\* the commit succeeds: the rows are written
TokenSyncCommit ==
    /\ tsync_pc = "commit"
    /\ user_token_row' = [u \in Users |->
                             IF u \in tsync_changed
                             THEN Reconcile(user_tokens[u], all_tokens[u], user_token_row[u]).row
                             ELSE user_token_row[u]]
    /\ user_tokens' = [u \in Users |->
                          IF u \in tsync_changed
                          THEN Reconcile(user_tokens[u], all_tokens[u], user_token_row[u]).memory
                          ELSE user_tokens[u]]
    /\ tsync_pc' = "idle"
    /\ UNCHANGED <<last_synced_tokens, all_tokens, tsync_changed, ntsyncs, beside_tsync>>

\* the commit raises: the except clause logs and rolls back
TokenSyncCommitFails ==
    /\ tsync_pc = "commit"
    /\ tsync_pc' = "idle"
    /\ UNCHANGED <<user_tokens, user_token_row, last_synced_tokens>>
    /\ UNCHANGED <<all_tokens, tsync_changed, ntsyncs, beside_tsync>>

NextRecon ==
    \/ \E u \in Users, amount \in DepositAmounts : AddCredits(u, amount)
    \/ AddCreditsCommit
    \/ RecalculateUser
    \/ RecalculateSum
    \/ RecalculateSet
    \/ SyncStart
    \/ SyncSelect
    \/ SyncCommit
    \/ SyncCommitFails
    \/ \E r \in {1} : RotateRead(r)
    \/ \E r \in {1} : RotateCreate(r)
    \/ \E r \in {1} : RotateDelete(r)
    \/ \E r \in {1} : RotateCommit(r)
    \/ \E r \in {1} : RedisSetUser(r)
    \/ \E r \in {1} : RedisSetLookup(r)
    \/ TokenSyncStart
    \/ TokenSyncSelect
    \/ TokenSyncCommit
    \/ TokenSyncCommitFails

SpecRecon == InitBase /\ [][NextRecon]_vars

(***************************************************************************)
(* The flush loop when the commit of a batch raises: process() has no      *)
(* try, so the exception ends process(), start() and the processor task.   *)
(***************************************************************************)
\* await self.db.commit() raises: the loop is left, the queue is not cleared
ProcessCommitFails ==
    /\ th_pc = "commit"
    /\ th_pc' = "raised"
    /\ UNCHANGED <<queue, running, th_session, persisted, nrecs, added_running>>
    /\ UNCHANGED beside_tlog

NextFlush ==
    \/ Add
    \/ ProcessCheck
    \/ ProcessCommit
    \/ ProcessCommitFails
    \/ ProcessWake
    \/ Stop

SpecFlush == InitBase /\ [][NextFlush]_vars

(***************************************************************************)
(* MemoryManager: the discount cache and the sessions, with their expiry.  *)
(***************************************************************************)
\* a faulty variant of Expired: an entry expires when its expiry is reached
ExpiredAtExpiry(time, expiry) == time >= expiry

\* datetime.utcnow() > expiry
Expired(time, expiry) == time > expiry

\* time passes
ClockTick ==
    /\ now < MaxNow
    /\ now' = now + 1
    /\ UNCHANGED <<mm_discount_cache, auth_sessions, found, nlookups, nsweeps>>
    /\ UNCHANGED <<mm_user_tokens, mm_token_lookup, nsets, beside_memory>>

\* MemoryManager.set_discount
MemSetDiscount(u, discount, ttl) ==
    /\ mm_discount_cache' = [mm_discount_cache EXCEPT
                                ![u] = [value |-> discount, expiry |-> now + ttl]]
    /\ UNCHANGED <<now, auth_sessions, found, nlookups, nsweeps>>
    /\ UNCHANGED <<mm_user_tokens, mm_token_lookup, nsets, beside_memory>>

\* MemoryManager.create_session
CreateSession(t, u, ttl) ==
    /\ auth_sessions' = [auth_sessions EXCEPT ![t] = [value |-> u, expiry |-> now + ttl]]
    /\ UNCHANGED <<now, mm_discount_cache, found, nlookups, nsweeps>>
    /\ UNCHANGED <<mm_user_tokens, mm_token_lookup, nsets, beside_memory>>

\* get_discount / get_session on one entry: the entry kept and the value returned
Lookup(entry) ==
    IF entry = NoEntry THEN [entry |-> NoEntry, value |-> NoDiscount]
    ELSE IF Expired(now, entry.expiry) THEN [entry |-> NoEntry, value |-> NoDiscount]
    ELSE [entry |-> entry, value |-> entry.value]

\* MemoryManager.get_discount
MemGetDiscount(u) ==
    /\ nlookups < MaxLookups
    /\ nlookups' = nlookups + 1
    /\ mm_discount_cache' = [mm_discount_cache EXCEPT ![u] = Lookup(@).entry]
    /\ found' = [call |-> "get_discount", value |-> Lookup(mm_discount_cache[u]).value]
    /\ UNCHANGED <<now, auth_sessions, nsweeps>>
    /\ UNCHANGED <<mm_user_tokens, mm_token_lookup, nsets, beside_memory>>

\* MemoryManager.get_session
MemGetSession(t) ==
    /\ nlookups < MaxLookups
    /\ nlookups' = nlookups + 1
    /\ auth_sessions' = [auth_sessions EXCEPT ![t] = Lookup(@).entry]
    /\ found' = [call |-> "get_session", value |-> Lookup(auth_sessions[t]).value]
    /\ UNCHANGED <<now, mm_discount_cache, nsweeps>>
    /\ UNCHANGED <<mm_user_tokens, mm_token_lookup, nsets, beside_memory>>

\* the entries of a cache that cleanup_expired_sessions deletes
ExpiredKeys(cache) ==
    {k \in DOMAIN cache : cache[k] # NoEntry /\ Expired(now, cache[k].expiry)}

\* MemoryManager.cleanup_expired_sessions
CleanupExpiredSessions ==
    /\ nsweeps < MaxCleanups
    /\ nsweeps' = nsweeps + 1
    /\ auth_sessions' = [t \in SessionTokens |->
                            IF t \in ExpiredKeys(auth_sessions) THEN NoEntry
                            ELSE auth_sessions[t]]
    /\ mm_discount_cache' = [u \in Users |->
                                IF u \in ExpiredKeys(mm_discount_cache) THEN NoEntry
                                ELSE mm_discount_cache[u]]
    /\ found' = [call |-> "cleanup",
                 value |-> Cardinality(ExpiredKeys(auth_sessions))
                             + Cardinality(ExpiredKeys(mm_discount_cache))]
    /\ UNCHANGED <<now, nlookups>>
    /\ UNCHANGED <<mm_user_tokens, mm_token_lookup, nsets, beside_memory>>

NextExpiry ==
    \/ ClockTick
    \/ \E u \in Users, discount \in CachedDiscounts, ttl \in TTLs :
            MemSetDiscount(u, discount, ttl)
    \/ \E t \in SessionTokens, u \in Users, ttl \in TTLs : CreateSession(t, u, ttl)
    \/ \E u \in Users : MemGetDiscount(u)
    \/ \E t \in SessionTokens : MemGetSession(t)
    \/ CleanupExpiredSessions

SpecExpiry == InitBase /\ [][NextExpiry]_vars

(***************************************************************************)
(* MemoryManager: the two token maps.                                      *)
(***************************************************************************)
\* MemoryManager.set_user_token
MemSetUserToken(u, t) ==
    /\ nsets < MaxSets
    /\ nsets' = nsets + 1
    /\ mm_user_tokens' = [mm_user_tokens EXCEPT ![u] = t]
    /\ mm_token_lookup' = [x \in Tokens |->
                              IF x = t THEN u
                              ELSE IF x = mm_user_tokens[u] THEN NoUser
                              ELSE mm_token_lookup[x]]
    /\ UNCHANGED <<now, mm_discount_cache, auth_sessions, found, nlookups, nsweeps>>
    /\ UNCHANGED beside_memory

\* MemoryManager.get_user_id_by_token
MemGetUserIdByToken(t) ==
    /\ found' = [call |-> "get_user_id_by_token", value |-> mm_token_lookup[t]]
    /\ UNCHANGED <<now, mm_discount_cache, auth_sessions, nlookups, nsweeps>>
    /\ UNCHANGED <<mm_user_tokens, mm_token_lookup, nsets, beside_memory>>

\* MemoryManager.get_user_token
MemGetUserToken(u) ==
    /\ found' = [call |-> "get_user_token", value |-> mm_user_tokens[u]]
    /\ UNCHANGED <<now, mm_discount_cache, auth_sessions, nlookups, nsweeps>>
    /\ UNCHANGED <<mm_user_tokens, mm_token_lookup, nsets, beside_memory>>

NextMemTokens ==
    \/ \E u \in MemUsers, t \in Tokens : MemSetUserToken(u, t)
    \/ \E t \in Tokens : MemGetUserIdByToken(t)
    \/ \E u \in MemUsers : MemGetUserToken(u)

SpecMemTokens == InitBase /\ [][NextMemTokens]_vars

(***************************************************************************)
(* POST /purchase with a token that get_user_id_by_token resolves to None: *)
(* the handler goes on with user_id = None.                                *)
(***************************************************************************)
\* type configurations: an item type that is sold, and one that is free
PricedConfig == [price |-> 3 * Unit, balance |-> 5 * Unit, custom |-> NoDiscount]
FreeConfig == [price |-> 0, balance |-> 5 * Unit, custom |-> NoDiscount]

InitAnyPrice == (\E c \in {PricedConfig, FreeConfig} : InitCore(c)) /\ InitAux

\* self._credits.get(user_id, 0.0) and RedisManager.get_user_credit for the key None
NullUserCredit == IF null_credit = NoCredit THEN 0 ELSE null_credit

\* the request is validated; the token resolves to None and nothing checks it
RequestUnresolved(p, t, a) ==
    /\ Free(p)
    /\ \A q \in Procs : q < p => ~Free(q)
    /\ nreq < MaxRequests
    /\ nreq' = nreq + 1
    /\ req' = [req EXCEPT ![p] = [user |-> NoUser, type |-> t, amount |-> a]]
    /\ IF ValidAmount(a)
       THEN /\ pc' = [pc EXCEPT ![p] = "null_discount"]
            /\ result' = [result EXCEPT ![p] = NoResult]
       ELSE /\ pc' = [pc EXCEPT ![p] = "done"]
            /\ result' = [result EXCEPT ![p] = [NoResult EXCEPT !.status = "invalid"]]
    /\ disc' = [disc EXCEPT ![p] = 0]
    /\ cost' = [cost EXCEPT ![p] = 0]
    /\ snap' = [snap EXCEPT ![p] = {}]
    /\ cand' = [cand EXCEPT ![p] = {}]
    /\ held' = [held EXCEPT ![p] = {}]
    /\ charged' = [charged EXCEPT ![p] = 0]
    /\ logged' = [logged EXCEPT ![p] = 0]
    /\ attempts' = [attempts EXCEPT ![p] = 0]
    /\ UNCHANGED <<hot, durable, queue, type_price, history, nadds>>
    /\ UNCHANGED aux

\* DiscountService.get_user_discount(None): nothing is cached under the key,
\* no user row is found, 0.0 is returned and nothing is cached
NullGetDiscount(p) ==
    /\ pc[p] = "null_discount"
    /\ disc' = [disc EXCEPT ![p] = 0]
    /\ pc' = [pc EXCEPT ![p] =
                IF TypeStorage(req[p].type) = "fast" THEN "null_fast" ELSE "null_db"]
    /\ UNCHANGED <<hot, durable, queue, type_price, history, counters>>
    /\ UNCHANGED <<req, cost, snap, cand, held, charged, logged, attempts, result>>
    /\ UNCHANGED aux

\* CreditService.purchase_data over MemoryManager.purchase_data, user_id = None
NullMemPurchase(p) ==
    /\ pc[p] = "null_fast"
    /\ LET t == req[p].type
           dcpi == DiscountedCostPerItem(type_price[t], disc[p])
           total_cost == req[p].amount * dcpi
       IN  IF InsufficientCredit(NullUserCredit, total_cost) \/ PoolEmpty(pools[t])
           THEN /\ result' = [result EXCEPT ![p] =
                                 [NoResult EXCEPT
                                     !.status = IF InsufficientCredit(NullUserCredit, total_cost)
                                                THEN "insufficient_credit" ELSE "no_data",
                                     !.credit_remaining = NullUserCredit]]
                /\ UNCHANGED <<pools, queue, held, charged, logged, returned, anon>>
           ELSE \E S \in Pick(pools[t], Available(req[p].amount, Cardinality(pools[t]))) :
                    LET actual_cost == MemActualCost(Cardinality(S), dcpi)
                        new_credit == IncrementUserCredit(NullUserCredit, -actual_cost)
                    IN  /\ pools' = [pools EXCEPT ![t] = @ \ S]
                        /\ null_credit' = new_credit
                        /\ null_sold' = null_sold \cup S
                        /\ queue' = Append(queue, Transaction(NoUser, -actual_cost, S))
                        /\ held' = [held EXCEPT ![p] = S]
                        /\ charged' = [charged EXCEPT ![p] = NullUserCredit - new_credit]
                        /\ logged' = [logged EXCEPT ![p] = 1]
                        /\ returned' = [returned EXCEPT ![t] =
                                           [i \in Items |-> IF i \in S THEN @[i] + 1 ELSE @[i]]]
                        /\ result' = [result EXCEPT ![p] =
                                         [status |-> "success", data |-> S,
                                          cost |-> actual_cost,
                                          credit_remaining |-> new_credit]]
    /\ pc' = [pc EXCEPT ![p] = "done"]
    /\ UNCHANGED <<credits, sold_data, discount_cache, durable, type_price>>
    /\ UNCHANGED <<req, disc, cost, snap, cand, attempts>>
    /\ UNCHANGED <<deposited, spent, added, counters>>
    /\ UNCHANGED beside_anon

\* the db branch with user_id = None: the credit check, then PoolService.purchase_data,
\* whose data_pool_sold rows violate NOT NULL on user_id at every attempt
NullDbPurchase(p) ==
    /\ pc[p] = "null_db"
    /\ LET t == req[p].type
           c == DbCost(req[p].amount, type_price[t], disc[p])
       IN  /\ cost' = [cost EXCEPT ![p] = c]
           /\ result' = [result EXCEPT ![p] =
                            [NoResult EXCEPT
                                !.status = IF DbInsufficient(NullUserCredit, c)
                                           THEN "insufficient_credit"
                                           ELSE IF Unsold(t) = {} THEN "no_data"
                                           ELSE "error",
                                !.credit_remaining = NullUserCredit]]
    /\ pc' = [pc EXCEPT ![p] = "done"]
    /\ UNCHANGED <<hot, durable, queue, type_price, history, counters>>
    /\ UNCHANGED <<req, disc, snap, cand, held, charged, logged, attempts>>
    /\ UNCHANGED aux

NextNullUser ==
    \/ \E t \in Types, items \in ItemBatches : AddItems(t, items)
    \/ \E p \in Procs, t \in Types, a \in Amounts : RequestUnresolved(p, t, a)
    \/ \E p \in Procs : NullGetDiscount(p)
    \/ \E p \in Procs : NullMemPurchase(p)
    \/ \E p \in Procs : NullDbPurchase(p)

SpecNullUser == InitAnyPrice /\ [][NextNullUser]_vars

Next ==
    \/ \E p \in Procs, u \in Users, t \in Types, a \in Amounts : Request(p, u, t, a)
    \/ \E p \in Procs : GetDiscount(p)
    \/ \E p \in Procs : MemPurchase(p)
    \/ \E p \in Procs : RedisPurchase(p)
    \/ \E p \in Procs : DbCheckCredit(p)
    \/ \E p \in Procs : DbSelect(p)
    \/ \E p \in Procs : DbLock(p)
    \/ \E p \in Procs : DbCommit(p)
    \/ \E p \in Procs : DbDeduct(p)
    \/ \E t \in Types, items \in ItemBatches : AddItems(t, items)

Spec == Init /\ [][Next]_vars

(***************************************************************************)
(* Properties.                                                             *)
(***************************************************************************)
RECURSIVE SumOver(_, _)
SumOver(f, S) ==
    IF S = {} THEN 0
    ELSE LET x == CHOOSE y \in S : TRUE IN f[x] + SumOver(f, S \ {x})

\* times item i was returned by a pool purchase, over all pools
TimesReturned(i) == SumOver([t \in Types |-> returned[t][i]], Types)

\* items a pool's purchases have returned so far
ReturnedFrom(t) == SumOver(returned[t], Items)

Succeeded(p) == pc[p] = "done" /\ result[p].status = "success"

\* C1: the balance in the HotStore is the balance the user started with
\* minus the sum of the costs reported by the successful purchases, after
\* any interleaving of fast-path and db-path purchases.
BalanceIsInitialMinusCosts ==
    \A u \in Users : credits[u] = deposited[u] - spent[u]

\* C2: no item value is returned by two successful purchases, whatever the
\* pool it came from and whether or not it was added again after its sale.
NoItemReturnedTwice ==
    \A i \in Items : TimesReturned(i) <= 1

BalanceNeverNegative ==
    \A u \in Users : credits[u] >= 0

\* C5: a request holds items it took out of a pool only when the buyer's
\* balance has been charged for them.
ItemsTakenOnlyWhenCharged ==
    \A p \in Procs : held[p] # {} => charged[p] > 0

\* the discounted price of one item of the request's type, before any rounding
UnitPrice(p) == DiscountedCostPerItem(type_price[req[p].type], disc[p])

\* a price rounded down and rounded up to a whole ledger quantum
FloorUnit(x) == (x \div Unit) * Unit
CeilUnit(x) == ((x + Unit - 1) \div Unit) * Unit

\* the step in which a fast purchase runs
FastStep(p) == pc[p] = "fast" /\ pc'[p] = "done"

\* the step in which either path settles its credit pre-check
PreCheckStep(p) ==
    \/ FastStep(p)
    \/ pc[p] = "db_check" /\ pc'[p] # "db_check"

\* C6 as stated: a fast pool holding k items, 0 < k < quantity, and a balance
\* that covers k * unit_price give success with the k items; with balance
\* 10.00, price 3.00, no discount, quantity 5 and a pool of 2 items the
\* purchase costs 6.00 and leaves 4.00.
PartialFillWhenItemsAreCovered ==
    [][\A p \in Procs :
        FastStep(p) =>
            LET u == req[p].user
                k == Cardinality(pools[req[p].type])
            IN  /\ (k >= 1 /\ k < req[p].amount /\ credits[u] >= k * UnitPrice(p))
                    => /\ result'[p].status = "success"
                       /\ Cardinality(result'[p].data) = k
                /\ (/\ credits[u] = 10 * Credit
                    /\ UnitPrice(p) = 3 * Credit
                    /\ req[p].amount = 5
                    /\ k = 2)
                    => /\ result'[p].status = "success"
                       /\ Cardinality(result'[p].data) = 2
                       /\ result'[p].cost = 6 * Credit
                       /\ result'[p].credit_remaining = 4 * Credit]_vars

\* C6 amended: a fast pool holding k items, 0 < k < quantity, gives success
\* with the k items exactly when the balance covers quantity * unit_price,
\* and insufficient_credit otherwise; with balance 15.00, price 3.00, no
\* discount, quantity 5 and a pool of 2 items the purchase costs 6.00 and
\* leaves 9.00.
PartialFillWhenQuantityIsCovered ==
    [][\A p \in Procs :
        FastStep(p) =>
            LET u == req[p].user
                k == Cardinality(pools[req[p].type])
            IN  /\ (k >= 1 /\ k < req[p].amount)
                    => IF credits[u] >= req[p].amount * UnitPrice(p)
                       THEN /\ result'[p].status = "success"
                            /\ result'[p].data \subseteq pools[req[p].type]
                            /\ Cardinality(result'[p].data) = k
                       ELSE result'[p].status = "insufficient_credit"
                /\ (/\ credits[u] = 15 * Credit
                    /\ UnitPrice(p) = 3 * Credit
                    /\ req[p].amount = 5
                    /\ k = 2)
                    => /\ result'[p].status = "success"
                       /\ Cardinality(result'[p].data) = 2
                       /\ result'[p].cost = 6 * Credit
                       /\ result'[p].credit_remaining = 9 * Credit]_vars

\* quantity 5 against a fast pool of 2 items: 2 items for 6.00, 9.00 left
PartialFillWitness ==
    \E p \in Procs :
        /\ Succeeded(p)
        /\ TypeStorage(req[p].type) = "fast"
        /\ req[p].amount = 5
        /\ Cardinality(result[p].data) = 2
        /\ result[p].cost = 6 * Credit
        /\ result[p].credit_remaining = 9 * Credit

\* C7: the cost a successful purchase reports, and the amount it takes off
\* the balance, is the number of items returned times the unit price (the
\* unit price rounded to a ledger quantum either way), never the quantity
\* requested times the unit price.
CostIsItemsTimesUnitPrice ==
    \A p \in Procs :
        Succeeded(p) =>
            LET n == Cardinality(result[p].data)
                lo == n * FloorUnit(UnitPrice(p))
                hi == n * CeilUnit(UnitPrice(p))
            IN  /\ lo <= result[p].cost /\ result[p].cost <= hi
                /\ lo <= charged[p] /\ charged[p] <= hi

\* C8: whenever the balance is below quantity * unit_price (with the unit
\* price rounded or not), the purchase answers insufficient_credit with the
\* current balance, and balance, pools, sold sets and the transaction buffer
\* are unchanged.
InsufficientCreditChangesNothing ==
    [][\A p \in Procs :
        (/\ PreCheckStep(p)
         /\ credits[req[p].user] < req[p].amount * UnitPrice(p)
         /\ credits[req[p].user] < req[p].amount * RoundHalfEven(UnitPrice(p)))
            => /\ pc'[p] = "done"
               /\ result'[p].status = "insufficient_credit"
               /\ result'[p].credit_remaining = credits[req[p].user]
               /\ UNCHANGED <<credits, pools, sold_data, data_pool_sold, queue>>]_vars

\* C9: a purchase that passed the pre-check and finds its pool empty answers
\* no_data; it has taken no item, charged nothing and enqueued no
\* transaction, and the step that finds the pool empty changes no store.
NoDataChangesNothing ==
    /\ [](\A p \in Procs :
            (pc[p] = "done" /\ result[p].status = "no_data")
                => held[p] = {} /\ charged[p] = 0 /\ logged[p] = 0)
    /\ [][\A p \in Procs :
            /\ (/\ FastStep(p)
                /\ credits[req[p].user] >= req[p].amount * UnitPrice(p)
                /\ pools[req[p].type] = {})
                => /\ result'[p].status = "no_data"
                   /\ UNCHANGED <<hot, durable, queue>>
            /\ (pc[p] = "db_select" /\ pc'[p] # "db_select" /\ Unsold(req[p].type) = {})
                => snap'[p] = {} /\ UNCHANGED <<hot, durable, queue>>
            /\ (pc[p] = "db_lock" /\ pc'[p] # "db_lock" /\ snap[p] = {})
                => /\ pc'[p] = "done"
                   /\ result'[p].status = "no_data"
                   /\ UNCHANGED <<hot, durable, queue>>]_vars

\* both a fast and a durable purchase have answered no_data, balance intact
NoDataWitness ==
    /\ \E p \in Procs :
        pc[p] = "done" /\ result[p].status = "no_data" /\ req[p].type = "gmail"
    /\ \E p \in Procs :
        pc[p] = "done" /\ result[p].status = "no_data" /\ req[p].type = "hotmail"
    /\ credits = deposited

\* C10: a quantity of 0 or less, or above 100, is rejected in the step that
\* receives it: the request is over, and balances, pools, sold sets, the
\* discount cache, the durable tables and the transaction buffer are
\* unchanged.
InvalidAmountChangesNothing ==
    [][\A p \in Procs :
        (/\ Free(p)
         /\ \A q \in Procs : q < p => ~Free(q)
         /\ nreq' = nreq + 1
         /\ (req'[p].amount <= 0 \/ req'[p].amount > MaxAmount))
            => /\ pc'[p] = "done"
               /\ result'[p].status = "invalid"
               /\ UNCHANGED <<hot, durable, queue>>]_vars

\* a quantity of 101 refused while the pool of its type holds items
InvalidAmountWitness ==
    \E p \in Procs :
        /\ pc[p] = "done"
        /\ result[p].status = "invalid"
        /\ req[p].amount = 101
        /\ PoolSize(req[p].type) > 0

\* the tokens that resolve to user u
LiveTokens(u) == {t \in Tokens : token_lookup[t] = u}

\* C11: when a SetToken(u, t2) completes, t2 resolves to u, and the token t
\* of the SetToken(u, t) completed before it, if another one, resolves to
\* nobody; in the MemoryManager and in the RedisManager implementation.
SetTokenRoundTrip ==
    [][\A u \in Users :
        last_set'[u] # last_set[u]
            => /\ token_lookup'[last_set'[u]] = u
               /\ last_set[u] # NoToken => token_lookup'[last_set[u]] = NoUser]_vars

\* C12: at most one token resolves to any user, and the token a completed
\* rotation replaced resolves to nobody.
OneLiveTokenPerUser ==
    /\ \A u \in Users : Cardinality(LiveTokens(u)) <= 1
    /\ \A t \in retired : token_lookup[t] = NoUser

InvalidationIsEffective ==
    \A u \in Users :
        (adm_pc = "idle" /\ nevents > 0 /\ fresh[u] /\ last_call[u].queries = 0)
            => last_call[u].value = FinalDiscount(custom_discount[u], deposit_sum[u])

\* the thresholds of a tier table that a deposit sum meets
Met(ranks, d) == {ranks[i].weekly_credit : i \in {j \in DOMAIN ranks : ranks[j].weekly_credit <= d}}
AllThresholds(ranks) == {ranks[i].weekly_credit : i \in DOMAIN ranks}

\* C15: for every tier table and every deposit sum, calculate_user_tier returns
\* a tier of the table whose threshold is the greatest threshold that is at most
\* the deposit sum (a sum equal to a threshold meets it), and the tier with the
\* lowest threshold when the sum meets no threshold.
TierIsGreatestThresholdMet ==
    tier_current # NoTier
        => /\ \E i \in DOMAIN tier_ranks : tier_ranks[i] = tier_current
           /\ IF Met(tier_ranks, tier_deposit) # {}
              THEN \A w \in Met(tier_ranks, tier_deposit) : w <= tier_current.weekly_credit
                   /\ tier_current.weekly_credit <= tier_deposit
              ELSE \A w \in AllThresholds(tier_ranks) : tier_current.weekly_credit <= w

\* a deposit sum equal to the threshold of the middle tier of an unsorted table
TierBoundaryWitness ==
    /\ tier_current # NoTier
    /\ tier_ranks = Tiers(<<2, 0, 1>>)
    /\ tier_deposit = 1
    /\ tier_current = [code |-> 3, weekly_credit |-> 1]

\* C16: no record passed to add is lost or written twice: each one is still in
\* the queue or is exactly one row of the DurableStore, never more than one.
NoRecordLostOrDuplicated ==
    \A r \in Records :
        /\ persisted[r] <= 1
        /\ r <= nrecs => (persisted[r] = 1 \/ r \in Elems(queue))

\* C17: when the loop has terminated after stop(), the queue is empty and every
\* record passed to add before stop() is a row of the DurableStore.
DrainedAtShutdown ==
    th_pc = "done"
        => /\ queue = << >>
           /\ \A r \in added_running : persisted[r] = 1

\* C18: at the end of every iteration of the scheduler loop, each task that has
\* never raised has run in this iteration exactly if it would have run in it had
\* no task ever raised.
FailureIsIsolated ==
    (sch_pc = "sleep" /\ nticks > 0)
        => \A i \in Tasks \ raised : (i \in ran) <=> (i \in due)

\* C19: the credit_sync run that follows a run whose commit failed selects as
\* changed every user whose row the failed run tried to write.
FailedSyncIsRetried ==
    [][(sync_pc = "idle" /\ nsyncs' # nsyncs) => tried \subseteq changed_user_ids']_vars

\* no purchase, deposit or credit_sync run is in progress
SyncQuiescent ==
    /\ sync_pc = "idle"
    /\ adm_pc = "idle"
    /\ \A p \in Procs : pc[p] \in {"idle", "done"}

\* C20: with no failed commit, whenever no handler and no credit_sync run is in
\* progress and credit_sync would skip a user (the HotStore balance equals the
\* last synced value), the user's user_credit row holds the HotStore balance.
SkippedBalanceIsDurable ==
    (nfailed = 0 /\ SyncQuiescent)
        => \A u \in Users :
              last_synced_credits[u] = credits[u] => credit_row[u] = credits[u]

\* C21: no scheduler task runs and no iteration of the scheduler loop starts
\* before the startup loads have returned, and when the first iteration starts
\* the HotStore holds every balance and every token of the DurableStore rows.
HotStoreLoadedBeforeFirstTick ==
    /\ [](\/ boot_pc = "started"
          \/ sch_pc = "off" /\ ran = {} /\ nticks = 0)
    /\ [][(nticks = 0 /\ nticks' = 1)
            => \A u \in Users :
                  /\ credit_row[u] # NoCredit => credits[u] = credit_row[u]
                  /\ user_token_row[u] # NoToken
                        => /\ user_tokens[u] = user_token_row[u]
                           /\ token_lookup[user_token_row[u]] = u]_vars

\* the tasks in the order of their registration
RegistrationOrder == [i \in Tasks |-> i]

Period(i) == (Intervals[i] + SYNC_INTERVAL_SECONDS - 1) \div SYNC_INTERVAL_SECONDS

\* C23: while no task has raised, at the end of iteration n of the scheduler loop
\* a task with interval I has run in it exactly if n - 1 is a multiple of
\* ceil(I / 5), and its countdown is I minus 5 for every tick since it last
\* ran; and a step of the loop changes no countdown but that of the task the
\* loop is at.
TimersAreIndependent ==
    /\ []((sch_pc = "sleep" /\ nticks > 0 /\ raised = {})
            => \A i \in Tasks :
                  /\ (i \in ran) <=> ((nticks - 1) % Period(i) = 0)
                  /\ timer[i] = Intervals[i]
                                  - SYNC_INTERVAL_SECONDS * ((nticks - 1) % Period(i)))
    /\ [][\A i \in Tasks : timer'[i] # timer[i] => i = sch_cur]_vars

\* the task with the 60 s interval has run for the second time, in iteration 13
SecondRunWitness ==
    /\ sch_pc = "sleep" /\ nticks = 13 /\ raised = {}
    /\ ran = Tasks

\* C24: once the scheduler is stopped, no credit_sync run is left with rows it
\* has set and tracked as synced but not committed.
NoPartialSyncAtShutdown ==
    sync_pc = "stopped" => sync_dirty = {}

DepositedSoFar(u) ==
    deposit_sum[u] + (IF adm_pc = "row" /\ adm_user = u THEN adm_amount ELSE 0)

AvailableIn(t, i) ==
    IF TypeStorage(t) = "fast" THEN i \in pools[t]
    ELSE data_pool[i] = t /\ data_pool_sold[i] = NoUser

\* C27: no item value is available in the pools of two different types.
PoolsAreExclusive ==
    \A i \in Items : \A t1, t2 \in Types :
        (AvailableIn(t1, i) /\ AvailableIn(t2, i)) => t1 = t2

\* the record a purchase that has answered success is expected to leave
ExpectedRecord(user, answer) ==
    [user_id |-> user, amount |-> -answer.cost, type |-> "purchase", data |-> answer.data]

RecordIsBestEffort ==
    /\ [](\A p \in Procs :
            (pc[p] \in {"rollback", "done"} /\ result[p].status = "success" /\ logged[p] = 0)
                => /\ result[p].data = held[p]
                   /\ held[p] # {}
                   /\ held[p] \subseteq sold_data[req[p].user])
    /\ [][\A p \in Procs :
            (pc[p] = "rollback" /\ pc'[p] # "rollback")
                => /\ pc'[p] = "done"
                   /\ result'[p] = result[p]
                   /\ credits' = credits
                   /\ pools' = pools
                   /\ sold_data' = sold_data
                   /\ queue' = queue]_vars
    /\ [](\A u \in Users : credits[u] = deposited[u] - spent[u])

\* a purchase whose record was not enqueued has answered success
BestEffortWitness ==
    \E p \in Procs :
        /\ pc[p] = "done"
        /\ result[p].status = "success"
        /\ logged[p] = 0
        /\ queue = << >>
        /\ credits[req[p].user] = BaseConfig.balance - result[p].cost

\* C30: a purchase on the db-backed type makes at most two pop attempts: the
\* first, and one more after a unique violation at the commit of the sold
\* markers.
PopRetriesAtMostOnce ==
    \A p \in Procs : attempts[p] <= 2

\* C31: the cost of a purchase that returned as many items as were asked for
\* is the number of items times the discounted unit price rounded to 5
\* digits, on the fast path and on the db path alike.
CostIsCountTimesRoundedUnitPrice ==
    \A p \in Procs :
        (Succeeded(p) /\ Cardinality(result[p].data) = req[p].amount)
            => result[p].cost = Cardinality(result[p].data) * RoundHalfEven(UnitPrice(p))

\* the discount of the rank with the greatest threshold the deposits reach
DiscountOfGreatestRankMet(deposits) ==
    LET met == {i \in DOMAIN RANKS : RANKS[i][1] <= deposits}
        top == CHOOSE i \in met : \A j \in met : RANKS[j][1] <= RANKS[i][1]
    IN  RANKS[top][2]

\* C32: a get_user_discount call that misses the cache takes the custom
\* discount of the user row when one is set, whatever the deposits, and the
\* discount of the deposit tier otherwise; the value it returns is the value
\* it stores in the cache.
MissComputesFinalDiscount ==
    /\ [][\A d \in DProcs : \A u \in Users :
            (gd_pc[d] = "user" /\ gd_pc'[d] # "user")
                => IF custom_discount[u] # NoDiscount
                   THEN gd_pc'[d] = "set" /\ gd_final'[d] = custom_discount[u]
                   ELSE gd_pc'[d] = "sum"]_vars
    /\ [][\A d \in DProcs : \A u \in Users :
            (gd_pc[d] = "sum" /\ gd_pc'[d] # "sum")
                => /\ gd_pc'[d] = "set"
                   /\ gd_final'[d] = DiscountOfGreatestRankMet(deposit_sum[u])]_vars
    /\ [][\A d \in DProcs : \A u \in Users :
            (gd_pc[d] = "set" /\ gd_pc'[d] # "set")
                => /\ last_call'[u].value = gd_final[d]
                   /\ discount_cache'[u] = gd_final[d]]_vars

\* a call that missed the cache returned and stored the discount of the
\* second tier, which a deposit of the user had reached
MissTierWitness ==
    \E u \in Users :
        /\ deposit_sum[u] >= RANKS[2][1]
        /\ custom_discount[u] = NoDiscount
        /\ last_call[u] = [value |-> RANKS[2][2], queries |-> 2]
        /\ discount_cache[u] = RANKS[2][2]

\* C33: a run of cleanup_old_transactions removes no row but purchase rows
\* older than 24 hours and changes no row it keeps, so the 7-day deposit sum
\* and the tier discount of every user are what they were before the run.
CleanupOnlyDeletesOldPurchases ==
    [][ncleanups' # ncleanups
        => /\ \A k \in RowIds :
                transaction_rows'[k] # transaction_rows[k]
                    => /\ transaction_rows[k].type = "purchase"
                       /\ transaction_rows[k].age > HOURS_KEPT
                       /\ transaction_rows'[k] = NoRow
           /\ \A u \in Users :
                /\ DepositSumOf(transaction_rows', u, 1) = DepositSumOf(transaction_rows, u, 1)
                /\ TierDiscount(DepositSumOf(transaction_rows', u, 1))
                     = TierDiscount(DepositSumOf(transaction_rows, u, 1))]_vars

\* a run removed an old purchase row and kept a deposit row of the same age
CleanupWitness ==
    /\ ncleanups > 0
    /\ \E k, j \in RowIds :
        /\ rows_before[k].type = "purchase" /\ rows_before[k].age = HOURS_KEPT + 1
        /\ transaction_rows[k] = NoRow
        /\ rows_before[j].type = "admin_deposit" /\ rows_before[j].age = HOURS_KEPT + 1
        /\ transaction_rows[j] = rows_before[j]

\* C34: no step of a credit_sync or token_sync run, committed or failed,
\* changes a HotStore balance, token map, pool, sold set or cached discount.
ReconciliationIsOneWay ==
    [][(\/ sync_pc' # sync_pc \/ nsyncs' # nsyncs
        \/ tsync_pc' # tsync_pc \/ ntsyncs' # ntsyncs)
            => /\ credits' = credits
               /\ user_tokens' = user_tokens
               /\ token_lookup' = token_lookup
               /\ pools' = pools
               /\ sold_data' = sold_data
               /\ discount_cache' = discount_cache]_vars

\* both tasks have written a row that differed from the HotStore, and a
\* credit_sync run has failed
ReconciliationWitness ==
    /\ sync_pc = "idle" /\ tsync_pc = "idle"
    /\ nfailed > 0
    /\ \E u \in Users :
        /\ credits[u] # BaseConfig.balance
        /\ credit_row[u] = credits[u]
        /\ last_synced_credits[u] = credits[u]
        /\ user_tokens[u] # NoToken
        /\ last_synced_tokens[u] = user_tokens[u]
        /\ user_token_row[u] = user_tokens[u]

\* C35: a commit of the flush loop that raises does not end the loop: as long
\* as stop() has not been called the loop is still iterating, so the records
\* in the buffer are written by a later iteration.
FlushLoopSurvivesFailure ==
    running => th_pc \in {"check", "commit", "sleep"}

\* C36: a get_discount or get_session call returns the value of an entry
\* only if its expiry has not passed, and removes an entry whose expiry has
\* passed; cleanup_expired_sessions removes the entries whose expiry has
\* passed and no others; every other entry is left as it was.
ExpiredEntriesAreNeverServed ==
    /\ [][nlookups' # nlookups
            => /\ \A u \in Users :
                    /\ mm_discount_cache'[u] \in {mm_discount_cache[u], NoEntry}
                    /\ (mm_discount_cache'[u] # mm_discount_cache[u]
                          => now > mm_discount_cache[u].expiry /\ found'.call = "get_discount")
                    /\ (found'.call = "get_discount" /\ now > mm_discount_cache[u].expiry)
                          => found'.value = NoDiscount /\ mm_discount_cache'[u] = NoEntry
                    /\ (found'.call = "get_discount" /\ now <= mm_discount_cache[u].expiry)
                          => found'.value = mm_discount_cache[u].value
               /\ \A t \in SessionTokens :
                    /\ auth_sessions'[t] \in {auth_sessions[t], NoEntry}
                    /\ (auth_sessions'[t] # auth_sessions[t]
                          => now > auth_sessions[t].expiry /\ found'.call = "get_session")
                    /\ (found'.call = "get_session" /\ found'.value # NoDiscount)
                          => \E s \in SessionTokens :
                                /\ now <= auth_sessions[s].expiry
                                /\ found'.value = auth_sessions[s].value]_vars
    /\ [][nsweeps' # nsweeps
            => /\ \A u \in Users :
                    mm_discount_cache'[u] =
                        IF now > mm_discount_cache[u].expiry THEN NoEntry
                        ELSE mm_discount_cache[u]
               /\ \A t \in SessionTokens :
                    auth_sessions'[t] =
                        IF now > auth_sessions[t].expiry THEN NoEntry
                        ELSE auth_sessions[t]]_vars

\* a sweep at the expiry time of one session and past the expiry of the
\* other has removed the second only, and a discount entry read at its
\* expiry time was served
ExpiryWitness ==
    /\ nsweeps > 0
    /\ auth_sessions["s1"] = NoEntry
    /\ auth_sessions["s2"] # NoEntry /\ auth_sessions["s2"].expiry = now
    /\ mm_discount_cache[1] # NoEntry /\ mm_discount_cache[1].expiry = now
    /\ found = [call |-> "get_discount", value |-> mm_discount_cache[1].value]

\* C37: in the MemoryManager a token resolves to a user exactly if it is
\* that user's current token.
TokenMapsAreInverse ==
    \A u \in MemUsers : \A t \in Tokens :
        (mm_token_lookup[t] = u) <=> (mm_user_tokens[u] = t)

\* C38: a step of a purchase request whose token resolves to no user
\* removes no item from a pool, marks no row sold, changes no balance entry
\* and creates none for the null user, and enqueues no Transaction.
UnresolvedTokenMutatesNothing ==
    [][(\E p \in Procs : req[p].user = NoUser /\ pc[p] # pc'[p] /\ ~Free(p))
            => UNCHANGED <<pools, data_pool, data_pool_sold, credits, sold_data,
                           null_credit, null_sold, queue>>]_vars

====
